---- MODULE Spec2Model ----
(***************************************************************************)
(* A model of the DaNomNoms backend: the agent chat handler and its        *)
(* orchestration loop (src/routers/agent.py), the tool dispatcher          *)
(* (execute_function_call), the receipt service                            *)
(* (src/services/restaurant_service.py) and the stores they touch          *)
(* (src/database.py).                                                      *)
(*                                                                         *)
(* Python values are represented as follows.                               *)
(*   - a dict is a TLA+ record whose domain is the set of keys present;    *)
(*     d.get(k) is GetStr, GetName or GetInt by the type of the value;     *)
(*   - a str that the code only stores, compares or tests for emptiness is *)
(*     a TLA+ string, "" standing for both None and the empty string       *)
(*     (the code tests them the same way, by truthiness);                  *)
(*   - a name that is matched by regular expression is a sequence of       *)
(*     one-character strings;                                              *)
(*   - a list is a sequence.                                               *)
(***************************************************************************)
EXTENDS Integers, Sequences, FiniteSets, TLC

VARIABLES
    conversation_threads,  \* agent.py:570  thread id -> list of messages
    req,                   \* the frames of the chat requests, by arrival
    api_key,               \* whether OPEN_AI_API_KEY is set in the environment
    receipts,              \* the Receipts collection, in insertion order
    deliveries,            \* external_delivery_ids accepted by the provider
    clock,                 \* the current UTC day (datetime.utcnow().date())
    nreq,                  \* chat requests started so far
    budget,                \* model responses other than PlainCalls still allowed
    rq,                    \* frames of the create-receipt requests
    workers,               \* the server processes that share the database
    disp                   \* one dispatcher call: its input and its outcome

vars == <<conversation_threads, req, api_key, receipts, deliveries, clock,
          nreq, budget, rq, workers, disp>>

----------------------------------------------------------------------------
(* Bounds of the model.                                                    *)

MaxRequests == 2
MaxSpecial == 1
MaxModelCalls == 12
MaxDay == 2
MaxReceiptRequests == 3
MaxSerialReceipts == 11
MaxOtherRestaurants == 20
MaxMenuItems == 21
MaxTrimLen == 23
MaxReceiptCalls == 4

(* Constants of the program.                                               *)

max_iterations == 10
max_messages == 20
other_max_length == 5000
list_max_length == 15000
zfill_width == 3

----------------------------------------------------------------------------
(* Generic helpers.                                                        *)

(* d.get(k) where the value is a str, a name or a number: None (the key is *)
(* absent) is "", <<>> or 0, which the code tests the same way as the      *)
(* empty str and as 0, by truthiness.                                      *)
GetStr(d, k) == IF k \in DOMAIN d THEN d[k] ELSE ""

GetName(d, k) == IF k \in DOMAIN d THEN d[k] ELSE <<>>

GetInt(d, k) == IF k \in DOMAIN d THEN d[k] ELSE 0

Last(s) == s[Len(s)]

Range(s) == {s[i] : i \in 1..Len(s)}

----------------------------------------------------------------------------
(* The catalog: the Restaurants and Items collections, in store order.     *)
(* Prices and fees are amounts in cents.  Identifiers are ObjectId         *)
(* strings; "zz" stands for a string that is no valid ObjectId and "r9",   *)
(* "i9" for valid ObjectIds that no document carries.                      *)

(* The restaurants behind the first two: they sell nothing and no name    *)
(* asked for below matches theirs                                          *)
OtherRestaurant(i) ==
    [_id |-> "o" \o ToString(i), store_id |-> "so" \o ToString(i),
     name |-> <<"o", ToString(i)>>, description |-> "$ - Other",
     delivery_fee |-> 0, items |-> <<>>]

(* A restaurant with a long menu, the last of the store *)
LongMenuRestaurant ==
    [_id |-> "r3", store_id |-> "s3", name |-> <<"m">>,
     description |-> "$ - Diner", delivery_fee |-> 0, items |-> <<>>]

LongMenuItem(i) ==
    [_id |-> "m" \o ToString(i), store_id |-> "s3",
     name |-> <<"m", ToString(i)>>, price |-> 100]

Restaurants ==
    << [_id |-> "r1", store_id |-> "s1", name |-> <<"S", "u", "b">>,
        description |-> "$ - Sandwiches", delivery_fee |-> 299, items |-> <<"i1", "i2">>],
       [_id |-> "r2", store_id |-> "s2", name |-> <<"s", "u">>,
        description |-> "$$ - Japanese, Sushi", delivery_fee |-> 0, items |-> <<>>] >>
    \o [i \in 1..MaxOtherRestaurants |-> OtherRestaurant(i)]
    \o <<LongMenuRestaurant>>

Items ==
    << [_id |-> "i1", store_id |-> "s1", name |-> <<"a">>, price |-> 1299],
       [_id |-> "i2", store_id |-> "s1", name |-> <<"a", "b">>, price |-> 500],
       [_id |-> "i3", store_id |-> "s2", name |-> <<"A">>, price |-> 250] >>
    \o [i \in 1..MaxMenuItems |-> LongMenuItem(i)]

ValidObjectIds ==
    {"r1", "r2", "r9", "i1", "i2", "i3", "i9"}
    \cup {OtherRestaurant(i)._id : i \in 1..MaxOtherRestaurants}
    \cup {"r3"} \cup {LongMenuItem(i)._id : i \in 1..MaxMenuItems}

(* What a raising or returning call produced.  raised = "" is a normal     *)
(* return of value; otherwise raised names the exception class.            *)

Ok(v) == [raised |-> "", value |-> v, detail |-> "", status_code |-> 0]

Raise(kind, detail, code) ==
    [raised |-> kind, value |-> [none |-> TRUE], detail |-> detail,
     status_code |-> code]

None == [none |-> TRUE]

(* The state of the services a call reaches: db is "up", "down" (every     *)
(* driver call raises) or "insert_fails" (reads answer, insert_one         *)
(* raises); dd is the delivery provider's answer.                          *)

Envs == [db : {"up", "down", "insert_fails"},
         dd : {"ok", "no_credentials", "rejected", "unreachable"}]

GoodEnv == [db |-> "up", dd |-> "ok"]

(* database.py:59-80.  A driver failure or an invalid ObjectId is caught   *)
(* and answered as "not found".                                            *)
get_restaurant_by_id(restaurant_id, env) ==
    IF env.db = "down" \/ restaurant_id \notin ValidObjectIds
    THEN None
    ELSE IF \E i \in 1..Len(Restaurants) : Restaurants[i]._id = restaurant_id
         THEN Restaurants[CHOOSE i \in 1..Len(Restaurants) :
                              Restaurants[i]._id = restaurant_id]
         ELSE None

(* A lookup that answers the document of every id asked for, line by line *)
RECURSIVE get_items_per_line(_, _)
get_items_per_line(item_ids, env) ==
    IF env.db = "down" \/ \E i \in 1..Len(item_ids) : item_ids[i] \notin ValidObjectIds
    THEN <<>>
    ELSE IF item_ids = <<>> THEN <<>>
    ELSE SelectSeq(Items, LAMBDA it : it._id = Head(item_ids))
             \o get_items_per_line(Tail(item_ids), env)

(* database.py:207-230.  $in returns each matching document once, in store *)
(* order; one invalid ObjectId or a driver failure empties the answer.     *)
get_items_by_ids(item_ids, env) ==
    IF env.db = "down" \/ \E i \in 1..Len(item_ids) : item_ids[i] \notin ValidObjectIds
    THEN <<>>
    ELSE SelectSeq(Items, LAMBDA it : it._id \in Range(item_ids))

----------------------------------------------------------------------------
(* Receipt identifiers.  A str the code formats or matches is the         *)
(* sequence of its characters.                                             *)

RECURSIVE str(_)
str(n) == IF n < 10 THEN <<ToString(n)>>
          ELSE Append(str(n \div 10), ToString(n % 10))

zfill(s, width) ==
    IF Len(s) >= width THEN s ELSE [i \in 1..(width - Len(s)) |-> "0"] \o s

(* datetime.utcnow().strftime("%Y%m%d"); the clock counts the days of      *)
(* January 2024.                                                           *)
strftime(day) == <<"2", "0", "2", "4", "0", "1">> \o zfill(str(day), 2)

IsPrefix(p, s) == Len(p) <= Len(s) /\ SubSeq(s, 1, Len(p)) = p

RcpPrefix(date_str) == <<"R", "C", "P", "-">> \o date_str \o <<"-">>

(* A count that forgets the date filter *)
count_every_document(col, date_str) == Len(col)

(* receipts_col.count_documents({"receipt_id": {"$regex": "^RCP-<date>-"}}) *)
count_documents(col, date_str) ==
    Cardinality({i \in 1..Len(col) :
                    IsPrefix(RcpPrefix(date_str), col[i].receipt_id)})

insert_one(col, doc) == Append(col, doc)

(* restaurant_service.py:69-85, given the day utcnow() answers and what    *)
(* the collection holds when it is counted.                                *)
generate_receipt_id(col, day) ==
    LET date_str == strftime(day)
        today_receipts == count_documents(col, date_str)
        sequence == zfill(str(today_receipts + 1), zfill_width)
    IN  RcpPrefix(date_str) \o sequence

----------------------------------------------------------------------------
(* Lookup by name (database.py:102-126 and 232-292): a case-insensitive    *)
(* regular expression, anchored first, unanchored second; find_one         *)
(* answers the first match in store order.                                 *)

lower(c) == CASE c = "S" -> "s" [] c = "U" -> "u" [] c = "B" -> "b"
              [] c = "A" -> "a" [] OTHER -> c

casefold(s) == [i \in 1..Len(s) |-> lower(s[i])]

(* A JSON value that is not a string where the code expects a str (a       *)
(* number, say) is NotStr; it is truthy.                                   *)
NotStr == <<"\\number">>

regex_search(pattern, s) ==
    \E i \in 0..(Len(s) - Len(pattern)) :
        SubSeq(casefold(s), i + 1, i + Len(pattern)) = casefold(pattern)

regex_fullmatch(pattern, s) == casefold(s) = casefold(pattern)

(* find_one(query), given the documents that match in store order *)
find_one(matching) == IF matching = <<>> THEN None ELSE matching[1]

(* A lookup that prefers the partial match *)
partial_first(exact, partial) == IF partial # None THEN partial ELSE exact

(* "exact or partial": the second lookup answers when the first found     *)
(* nothing (database.py:115-124 and 268-288)                               *)
or_else(exact, partial) == IF exact # None THEN exact ELSE partial

(* database.py:102-126.  re.escape raises TypeError on a non-str, and a    *)
(* driver failure is not caught here.                                      *)
get_restaurant_by_name(name, env) ==
    IF name = NotStr THEN Raise("TypeError", "expected str", 0)
    ELSE IF env.db = "down" THEN Raise("PyMongoError", "database unreachable", 0)
    ELSE Ok(or_else(find_one(SelectSeq(Restaurants, LAMBDA r : regex_fullmatch(name, r.name))),
                    find_one(SelectSeq(Restaurants, LAMBDA r : regex_search(name, r.name)))))

(* A search over the items of every restaurant *)
owned_by_anyone(restaurant, it) == TRUE

(* database.py:250-266: the items of a restaurant are those its items list *)
(* names, or those of its store when it has no list                        *)
owned(restaurant, it) ==
    IF restaurant.items # <<>>
    THEN it._id \in Range(restaurant.items)
    ELSE restaurant.store_id # "" /\ it.store_id = restaurant.store_id

(* database.py:246-288, given the restaurant document *)
item_by_name_in(restaurant, item_name) ==
    IF restaurant = None THEN None
    ELSE or_else(find_one(SelectSeq(Items, LAMBDA it :
                     owned(restaurant, it) /\ regex_fullmatch(item_name, it.name))),
                 find_one(SelectSeq(Items, LAMBDA it :
                     owned(restaurant, it) /\ regex_search(item_name, it.name))))

(* database.py:232-292.  Every exception is answered as None.              *)
get_item_by_name(restaurant_id, item_name, env) ==
    IF item_name = NotStr \/ env.db = "down" THEN None
    ELSE item_by_name_in(get_restaurant_by_id(restaurant_id, env), item_name)

(* agent.py:41-45, given what get_restaurant_by_name answered *)
restaurant_id_of(found, restaurant_name) ==
    IF found.raised # "" THEN found
    ELSE IF found.value = None
         THEN Raise("ValueError",
                    "Restaurant '" \o ToString(restaurant_name) \o "' not found", 0)
         ELSE Ok([id |-> found.value._id])

(* agent.py:29-45 *)
resolve_restaurant_name_to_id(restaurant_name, env) ==
    restaurant_id_of(get_restaurant_by_name(restaurant_name, env), restaurant_name)

(* agent.py:67-71, given what get_item_by_name answered *)
item_id_of(item, restaurant_name, item_name) ==
    IF item = None
    THEN Raise("ValueError",
               "Item '" \o ToString(item_name) \o "' not found in restaurant '"
               \o ToString(restaurant_name) \o "'", 0)
    ELSE Ok([id |-> item._id])

(* agent.py:61-71, given what get_restaurant_by_name answered *)
item_id_in(found, restaurant_name, item_name, env) ==
    IF found.raised # "" THEN found
    ELSE IF found.value = None
         THEN Raise("ValueError",
                    "Restaurant '" \o ToString(restaurant_name) \o "' not found", 0)
         ELSE item_id_of(get_item_by_name(found.value._id, item_name, env),
                         restaurant_name, item_name)

(* agent.py:48-71 *)
resolve_item_name_to_id(restaurant_name, item_name, env) ==
    item_id_in(get_restaurant_by_name(restaurant_name, env),
               restaurant_name, item_name, env)

----------------------------------------------------------------------------
(* The restaurant service (restaurant_service.py).  Amounts are integers:  *)
(* cents, and thousandths of a cent where a tax rate has been applied.     *)

tax_rate_permille == 85

(* round(x, 2) of an amount given in thousandths of a cent, in cents *)
round2(milli) == (milli + 500) \div 1000

RECURSIVE SumSeq(_)
SumSeq(s) == IF s = <<>> THEN 0 ELSE s[1] + SumSeq(Tail(s))

(* A CartItem that takes any quantity *)
CartItem_unchecked(item) == Ok(item)

(* models.py:153-156: CartItem(item_id, quantity >= 1); a failed           *)
(* validation raises pydantic's ValidationError, a ValueError.             *)
CartItem(item) ==
    IF item.quantity >= 1 THEN Ok(item)
    ELSE Raise("ValueError", "quantity: Input should be greater than or equal to 1", 0)

(* restaurant_service.py:245-256: one priced line of the cart *)
cart_line(ci, item_data) ==
    [item_id |-> ci.item_id,
     name |-> item_data.name,
     price |-> item_data.price,
     quantity |-> ci.quantity,
     subtotal |-> item_data.price * ci.quantity]

(* restaurant_service.py:258-262: the priced request *)
priced(request, restaurant, lines) ==
    Ok([restaurant_id |-> request.restaurant_id,
        restaurant_name |-> restaurant.name,
        items |-> lines,
        subtotal |-> SumSeq([i \in 1..Len(lines) |-> lines[i].subtotal]),
        fee |-> restaurant.delivery_fee])

(* restaurant_service.py:226-256, given the documents read *)
price_with(request, restaurant, item_ids, items_data) ==
    IF restaurant = None
    THEN Raise("HTTPException", "Restaurant not found", 404)
    ELSE IF Len(items_data) # Len(item_ids)
    THEN Raise("HTTPException", "One or more items not found or invalid", 400)
    ELSE IF \E i \in 1..Len(item_ids) :
                find_one(SelectSeq(items_data, LAMBDA it : it._id = item_ids[i])) = None
    THEN Raise("HTTPException",
               "Item " \o (CHOOSE id \in Range(item_ids) :
                              find_one(SelectSeq(items_data, LAMBDA it : it._id = id)) = None)
               \o " not found", 400)
    ELSE priced(request, restaurant,
                [i \in 1..Len(request.items) |->
                    cart_line(request.items[i],
                              find_one(SelectSeq(items_data,
                                       LAMBDA it : it._id = request.items[i].item_id)))])

(* restaurant_service.py:234: the ids of the items asked for *)
ids_of(items) == [i \in 1..Len(items) |-> items[i].item_id]

(* restaurant_service.py:226-256, 301-329 and 369-399: the checks and the  *)
(* pricing the three operations share.  request is                         *)
(* [restaurant_id, items], items a sequence of [item_id, quantity].        *)
price_items(request, env) ==
    price_with(request, get_restaurant_by_id(request.restaurant_id, env),
               ids_of(request.items), get_items_by_ids(ids_of(request.items), env))

(* "round(delivery_fee, 2) if delivery_fee else None": None is <<>> *)
fee_or_none(fee) == IF fee # 0 THEN <<fee>> ELSE <<>>

(* restaurant_service.py:264-285, given the priced request *)
cart_of(p) ==
    IF p.raised # "" THEN p
    ELSE Ok([restaurant_id |-> p.value.restaurant_id,
             restaurant_name |-> p.value.restaurant_name,
             items |-> p.value.items,
             subtotal |-> p.value.subtotal,
             delivery_fee |-> fee_or_none(p.value.fee),
             total |-> p.value.subtotal + p.value.fee])

(* restaurant_service.py:213-285 *)
build_cart(request, env) == cart_of(price_items(request, env))

(* An estimate that taxes the delivery fee with the subtotal *)
estimate_taxing_fee(p) ==
    IF p.raised # "" THEN p
    ELSE Ok([restaurant_id |-> p.value.restaurant_id,
             restaurant_name |-> p.value.restaurant_name,
             subtotal |-> p.value.subtotal,
             delivery_fee |-> fee_or_none(p.value.fee),
             estimated_total |->
                 round2((p.value.subtotal + p.value.fee) * (1000 + tax_rate_permille)),
             estimated_tax |->
                 round2((p.value.subtotal + p.value.fee) * tax_rate_permille)])

(* restaurant_service.py:331-353, given the priced request *)
estimate_of(p) ==
    IF p.raised # "" THEN p
    ELSE Ok([restaurant_id |-> p.value.restaurant_id,
             restaurant_name |-> p.value.restaurant_name,
             subtotal |-> p.value.subtotal,
             delivery_fee |-> fee_or_none(p.value.fee),
             estimated_total |->
                 round2((p.value.subtotal + p.value.fee) * 1000
                        + p.value.subtotal * tax_rate_permille),
             estimated_tax |-> round2(p.value.subtotal * tax_rate_permille)])

(* restaurant_service.py:288-353 *)
compute_cost_estimate(request, env) == estimate_of(price_items(request, env))

(* restaurant_service.py:427-443: the receipt document; created_at is the  *)
(* UTC day of the second reading of the clock                              *)
receipt_data(p, receipt_id, created_at) ==
    LET tax == p.subtotal * tax_rate_permille
        total == (p.subtotal + p.fee) * 1000 + tax
    IN  [receipt_id |-> receipt_id,
         restaurant_id |-> p.restaurant_id,
         items |-> p.items,
         subtotal |-> p.subtotal,
         delivery_fee |-> fee_or_none(p.fee),
         tax |-> round2(tax),
         total |-> round2(total),
         created_at |-> created_at]

(* A receipt answered without being inserted *)
db_create_receipt_unsaved(col, doc, env) ==
    IF env.db # "up"
    THEN [out |-> Raise("PyMongoError", "insert failed", 0), col |-> col]
    ELSE [out |-> Ok(doc), col |-> col]

(* database.py:294-306: insert_one raises when the driver fails, and       *)
(* nothing catches it on the way out of the service                        *)
db_create_receipt(col, doc, env) ==
    IF env.db # "up"
    THEN [out |-> Raise("PyMongoError", "insert failed", 0), col |-> col]
    ELSE [out |-> Ok(doc), col |-> insert_one(col, doc)]

(* A request that keeps the number it was refused with *)
receipt_of_reserving(p, col, day, env) ==
    IF p.raised # ""
    THEN [out |-> p,
          col |-> insert_one(col, [receipt_id |-> generate_receipt_id(col, day),
                                   created_at |-> day])]
    ELSE db_create_receipt(col,
             receipt_data(p.value, generate_receipt_id(col, day), day), env)

(* restaurant_service.py:401-467, given the priced request *)
receipt_of(p, col, day, env) ==
    IF p.raised # "" THEN [out |-> p, col |-> col]
    ELSE db_create_receipt(col,
             receipt_data(p.value, generate_receipt_id(col, day), day), env)

(* restaurant_service.py:356-467 run without interruption: the outcome and *)
(* the Receipts collection it leaves.                                      *)
create_receipt(request, col, day, env) ==
    receipt_of(price_items(request, env), col, day, env)

(* database.py:37-57 with pymongo's cursor: limit and skip must be ints,   *)
(* skip >= 0 (ValueError); limit 0 is "no limit" and a negative limit      *)
(* answers abs(limit) documents.  A JSON value that is no number is        *)
(* NotInt.                                                                 *)
NotInt == 0 - 999

abs(n) == IF n < 0 THEN 0 - n ELSE n

db_list_restaurants(limit, skip, env) ==
    IF limit = NotInt \/ skip = NotInt THEN Raise("TypeError", "must be an integer", 0)
    ELSE IF skip < 0 THEN Raise("ValueError", "skip must be >= 0", 0)
    ELSE IF env.db = "down" THEN Raise("PyMongoError", "database unreachable", 0)
    ELSE LET rest == SubSeq(Restaurants, skip + 1, Len(Restaurants))
             n == IF limit = 0 \/ abs(limit) > Len(rest) THEN Len(rest) ELSE abs(limit)
         IN  Ok([docs |-> SubSeq(rest, 1, n)])

(* restaurant_service.py:103-127, given the documents read *)
restaurants_listed(restaurants_data, limit, skip) ==
    IF restaurants_data.raised # "" THEN restaurants_data
    ELSE Ok([restaurants |-> restaurants_data.value.docs,
             total |-> Len(Restaurants),
             limit |-> limit,
             skip |-> skip])

(* restaurant_service.py:88-127 *)
list_restaurants(limit, skip, env) ==
    restaurants_listed(db_list_restaurants(limit, skip, env), limit, skip)

(* database.py:140-163, given the restaurant document *)
menu_items_of(restaurant) ==
    IF restaurant = None THEN <<>>
    ELSE IF restaurant.items # <<>>
         THEN SelectSeq(Items, LAMBDA it : it._id \in Range(restaurant.items))
         ELSE IF restaurant.store_id # ""
              THEN SelectSeq(Items, LAMBDA it : it.store_id = restaurant.store_id)
              ELSE <<>>

(* database.py:128-165.  Every exception is answered as []. *)
get_menu_items(restaurant_id, env) ==
    menu_items_of(get_restaurant_by_id(restaurant_id, env))

(* models.py:110-120, the dict of a MenuItemResponse: _id, declared with  *)
(* a leading underscore, is no field of the model and is left out.         *)
MenuItemResponse(item) ==
    [store_id |-> item.store_id, name |-> item.name, price |-> item.price]

(* restaurant_service.py:180-189 *)
menu_response(restaurant, items) ==
    Ok([restaurant_id |-> restaurant._id,
        restaurant_name |-> restaurant.name,
        items |-> [i \in 1..Len(items) |-> MenuItemResponse(items[i])],
        total_items |-> Len(items)])

(* restaurant_service.py:173-189, given what get_restaurant_by_name        *)
(* answered                                                                *)
menu_of(found, restaurant_name, env) ==
    IF found.raised # "" THEN found
    ELSE IF found.value = None
         THEN Raise("HTTPException",
                    "Restaurant '" \o ToString(restaurant_name) \o "' not found", 404)
         ELSE menu_response(found.value, get_menu_items(found.value._id, env))

(* restaurant_service.py:160-189 *)
get_restaurant_menu_by_name(restaurant_name, env) ==
    menu_of(get_restaurant_by_name(restaurant_name, env), restaurant_name, env)

(* restaurant_service.py:205-210 *)
item_response(item_data) ==
    IF item_data = None THEN Raise("HTTPException", "Item not found", 404)
    ELSE Ok(MenuItemResponse(item_data))

(* database.py:186-205 and restaurant_service.py:192-210 *)
get_menu_item(item_id, env) ==
    item_response(IF env.db = "down" \/ item_id \notin ValidObjectIds THEN None
                  ELSE find_one(SelectSeq(Items, LAMBDA it : it._id = item_id)))

----------------------------------------------------------------------------
(* The delivery service (doordash_service.py).  dl is the sequence of the  *)
(* external_delivery_ids the provider accepted.                            *)

RequiredDeliveryFields ==
    {"external_delivery_id", "pickup_address", "pickup_business_name",
     "pickup_phone_number", "dropoff_address", "dropoff_phone_number"}

NotStrS == "\\number"

(* models.py:319-333: the request built from the keyword arguments *)
DoorDashCreateDeliveryRequest(arguments) ==
    IF "nondict" \in DOMAIN arguments
    THEN Raise("TypeError", "argument after ** must be a mapping", 0)
    ELSE IF \E f \in RequiredDeliveryFields :
                f \notin DOMAIN arguments \/ arguments[f] = NotStrS
         THEN Raise("ValueError", "validation error for DoorDashCreateDeliveryRequest", 0)
         ELSE Ok(arguments)

(* doordash_service.py:70-143 *)
create_delivery(request, dl, env) ==
    CASE env.dd = "no_credentials" ->
            [out |-> Raise("HTTPException", "Missing required DoorDash credentials. Please check your .env file.", 500),
             dl |-> dl]
      [] env.dd = "unreachable" ->
            [out |-> Raise("HTTPException", "Error communicating with DoorDash API", 500),
             dl |-> dl]
      [] env.dd = "rejected" ->
            [out |-> Raise("HTTPException", "DoorDash API error", 400), dl |-> dl]
      [] OTHER ->
            [out |-> Ok([external_delivery_id |-> request.external_delivery_id,
                         delivery_status |-> "created"]),
             dl |-> Append(dl, request.external_delivery_id)]

(* doordash_service.py:146-200 *)
track_delivery(external_delivery_id, dl, env) ==
    CASE env.dd = "no_credentials" ->
            Raise("HTTPException", "Missing required DoorDash credentials. Please check your .env file.", 500)
      [] env.dd = "unreachable" ->
            Raise("HTTPException", "Error communicating with DoorDash API", 500)
      [] env.dd = "rejected" -> Raise("HTTPException", "DoorDash API error", 400)
      [] OTHER ->
            IF external_delivery_id \in Range(dl)
            THEN Ok([external_delivery_id |-> external_delivery_id,
                     delivery_status |-> "created"])
            ELSE Raise("HTTPException",
                       "Delivery with external_delivery_id '" \o external_delivery_id
                       \o "' not found", 404)

----------------------------------------------------------------------------
(* The tool dispatcher (agent.py:385-566).  The arguments are the value    *)
(* json.loads answered: a dict, or [nondict |-> TRUE] for any other JSON   *)
(* value (a list, a number, null).                                         *)

IsDict(arguments) == "nondict" \notin DOMAIN arguments

AttributeError == Raise("AttributeError", "object has no attribute 'get'", 0)

(* str(e) of a caught exception *)
exc_str(o) == IF o.raised = "HTTPException"
              THEN ToString(o.status_code) \o ": " \o o.detail
              ELSE o.detail

(* agent.py:459-465, 487-493, 515-521: the loop that resolves the item     *)
(* names.  An item that is no dict (or an items value that is no list) is  *)
(* [nondict |-> TRUE].  raised = "return" is the loop's early return of    *)
(* its value.  resolve_item is one turn of the loop: it answers the        *)
(* resolved item, or what ends the loop.                                   *)
resolved_item(item_id, quantity) ==
    IF item_id.raised # "" THEN item_id
    ELSE Ok([item_id |-> item_id.value.id, quantity |-> quantity])

resolve_item(restaurant_name, item, env) ==
    IF ~IsDict(item) THEN AttributeError
    ELSE IF GetName(item, "item_name") = <<>> \/ GetInt(item, "quantity") = 0
    THEN [raised |-> "return",
          value |-> [error |-> "Each item must have item_name and quantity"],
          detail |-> "", status_code |-> 0]
    ELSE resolved_item(resolve_item_name_to_id(restaurant_name,
                                               GetName(item, "item_name"), env),
                       GetInt(item, "quantity"))

RECURSIVE resolve_items(_, _, _, _)
resolve_next(one, restaurant_name, items, env, resolved_items) ==
    IF one.raised # "" THEN one
    ELSE resolve_items(restaurant_name, Tail(items), env,
                       Append(resolved_items, one.value))

resolve_items(restaurant_name, items, env, resolved_items) ==
    IF items = <<>> THEN Ok([items |-> resolved_items])
    ELSE resolve_next(resolve_item(restaurant_name, Head(items), env),
                      restaurant_name, items, env, resolved_items)

(* agent.py:467-468, 495-496, 523-533: the request object, whose           *)
(* construction validates each CartItem and, for a CreateReceiptRequest,   *)
(* the optional fields (optional_ok)                                       *)
request_object(restaurant_id, resolved_items, optional_ok) ==
    IF \E i \in 1..Len(resolved_items) : CartItem(resolved_items[i]).raised # ""
    THEN CartItem(resolved_items[CHOOSE i \in 1..Len(resolved_items) :
                                     CartItem(resolved_items[i]).raised # ""])
    ELSE IF ~optional_ok
    THEN Raise("ValueError", "Input should be a valid string", 0)
    ELSE Ok([restaurant_id |-> restaurant_id, items |-> resolved_items])

request_with(restaurant_id, resolved, optional_ok) ==
    IF resolved.raised # "" THEN resolved
    ELSE request_object(restaurant_id, resolved.value.items, optional_ok)

request_for(restaurant_id, restaurant_name, items, env, optional_ok) ==
    IF restaurant_id.raised # "" THEN restaurant_id
    ELSE request_with(restaurant_id.value.id,
                      resolve_items(restaurant_name, items, env, <<>>), optional_ok)

(* agent.py:453-468, 481-496, 509-533: the body of the try up to the       *)
(* request object.                                                         *)
build_request(restaurant_name, items, env, optional_ok) ==
    request_for(resolve_restaurant_name_to_id(restaurant_name, env),
                restaurant_name, items, env, optional_ok)

(* agent.py:470-473, 498-501, 535-538: the handlers of the inner try *)
inner_except(o) ==
    CASE o.raised = "" -> o
      [] o.raised = "return" -> Ok(o.value)
      [] o.raised = "ValueError" -> Ok([error |-> o.detail])
      [] OTHER -> Ok([error |-> "Invalid request parameters: " \o exc_str(o)])

OptionalReceiptFields ==
    {"delivery_id", "customer_name", "customer_email", "customer_phone",
     "delivery_address"}

(* Handlers that let the exception through: the caller sees it escape *)
outer_reraise(o) ==
    IF o.raised = "" THEN o.value ELSE [escaped |-> o.raised]

(* agent.py:556-566: the handlers of the outer try *)
outer_except(o) ==
    CASE o.raised = "" -> o.value
      [] o.raised = "HTTPException" ->
            [error |-> o.detail, error_type |-> "http_exception",
             status_code |-> o.status_code]
      [] OTHER ->
            [error |-> "Unexpected error: " \o exc_str(o),
             error_type |-> "unexpected_error"]

min(a, b) == IF a < b THEN a ELSE b

(* agent.py:405-422: a list of more than 20 restaurants is cut to four     *)
(* fields each and marked truncated                                        *)
essential(r) ==
    [_id |-> r._id, name |-> r.name, description |-> r.description,
     store_id |-> r.store_id]

(* A list answered as the service gave it *)
listed_in_full(result) == result

listed(result) ==
    IF result.raised # "" THEN result
    ELSE IF Len(result.value.restaurants) > 20
    THEN Ok([restaurants |-> [i \in 1..Len(result.value.restaurants) |->
                                 essential(result.value.restaurants[i])],
             total |-> result.value.total,
             limit |-> result.value.limit,
             skip |-> result.value.skip,
             truncated |-> TRUE,
             note |-> "Showing minimal data (id, name, description) for "
                      \o ToString(Len(result.value.restaurants))
                      \o " restaurants. Use get_restaurant_menu for full details."])
    ELSE result

(* agent.py:397-422.  min raises TypeError when limit is no number. *)
call_list_restaurants(arguments, env) ==
    IF ~IsDict(arguments) THEN AttributeError
    ELSE IF "limit" \in DOMAIN arguments /\ arguments.limit = NotInt
    THEN Raise("TypeError", "'<' not supported between instances", 0)
    ELSE listed(list_restaurants(
                    min(IF "limit" \in DOMAIN arguments THEN arguments.limit ELSE 100, 100),
                    GetInt(arguments, "skip"), env))

(* agent.py:429-434: a menu of more than 20 items is cut to 20 *)
menu_cut(result) ==
    IF result.raised # "" THEN result
    ELSE IF Len(result.value.items) > 20
    THEN Ok([result.value EXCEPT
                !.items = SubSeq(result.value.items, 1, 20),
                !.total_items = min(result.value.total_items, 20)])
    ELSE result

(* agent.py:424-434 *)
call_get_restaurant_menu(arguments, env) ==
    IF ~IsDict(arguments) THEN AttributeError
    ELSE IF GetName(arguments, "restaurant_name") = <<>>
    THEN Ok([error |-> "restaurant_name is required"])
    ELSE menu_cut(get_restaurant_menu_by_name(GetName(arguments, "restaurant_name"), env))

(* agent.py:441-445: only ValueError is caught by the inner try *)
menu_item_for(item_id, env) ==
    IF item_id.raised = "ValueError" THEN Ok([error |-> item_id.detail])
    ELSE IF item_id.raised # "" THEN item_id
    ELSE get_menu_item(item_id.value.id, env)

(* agent.py:436-445 *)
call_get_menu_item(arguments, env) ==
    IF ~IsDict(arguments) THEN AttributeError
    ELSE IF GetName(arguments, "restaurant_name") = <<>>
            \/ GetName(arguments, "item_name") = <<>>
    THEN Ok([error |-> "restaurant_name and item_name are required"])
    ELSE menu_item_for(resolve_item_name_to_id(GetName(arguments, "restaurant_name"),
                                               GetName(arguments, "item_name"), env),
                       env)

(* agent.py:447-533: build_cart, compute_cost_estimate and create_receipt  *)
(* up to the call of the service.  stage tells whether the outcome arose   *)
(* before the inner try ("outer") or inside it ("inner").                  *)
call_with_request(function_name, arguments, env) ==
    IF ~IsDict(arguments) THEN [stage |-> "outer", out |-> AttributeError]
    ELSE IF GetName(arguments, "restaurant_name") = <<>>
            \/ GetName(arguments, "items") = <<>>
    THEN [stage |-> "outer",
          out |-> Ok([error |-> "restaurant_name and items are required"])]
    ELSE [stage |-> "inner",
          out |-> build_request(GetName(arguments, "restaurant_name"),
                                arguments.items, env,
                                function_name # "create_receipt"
                                \/ \A f \in OptionalReceiptFields :
                                       GetStr(arguments, f) # NotStrS)]

DeclaredTools ==
    {"list_restaurants", "get_restaurant_menu", "get_menu_item", "build_cart",
     "compute_cost_estimate", "create_receipt", "create_delivery", "track_delivery"}

(* What a branch that touches no collection answers *)
same(o, col, dl) == [result |-> outer_except(o), col |-> col, dl |-> dl]

(* agent.py:451-473: build_cart once the arguments are read *)
cart_branch(request, env) ==
    IF request.stage = "outer" THEN request.out
    ELSE IF request.out.raised # "" THEN inner_except(request.out)
    ELSE inner_except(build_cart(request.out.value, env))

(* agent.py:479-501: compute_cost_estimate once the arguments are read *)
estimate_branch(request, env) ==
    IF request.stage = "outer" THEN request.out
    ELSE IF request.out.raised # "" THEN inner_except(request.out)
    ELSE inner_except(compute_cost_estimate(request.out.value, env))

(* agent.py:535-538 over the service's answer *)
receipt_answer(done, dl) ==
    [result |-> outer_except(inner_except(done.out)), col |-> done.col, dl |-> dl]

(* agent.py:507-538: create_receipt once the arguments are read *)
receipt_branch(request, col, dl, day, env) ==
    IF request.stage = "outer" THEN same(request.out, col, dl)
    ELSE IF request.out.raised # "" THEN same(inner_except(request.out), col, dl)
    ELSE receipt_answer(create_receipt(request.out.value, col, day, env), dl)

(* agent.py:545 over the service's answer *)
delivery_answer(done, col) ==
    [result |-> outer_except(done.out), col |-> col, dl |-> done.dl]

(* agent.py:540-545 *)
delivery_branch(request, col, dl, env) ==
    IF request.raised # ""
    THEN same(Ok([error |-> "Invalid request parameters: " \o exc_str(request)]), col, dl)
    ELSE delivery_answer(create_delivery(request.value, dl, env), col)

(* agent.py:547-551 *)
track_branch(arguments, dl, env) ==
    IF ~IsDict(arguments) THEN AttributeError
    ELSE IF GetStr(arguments, "external_delivery_id") = ""
    THEN Ok([error |-> "external_delivery_id is required"])
    ELSE track_delivery(GetStr(arguments, "external_delivery_id"), dl, env)

(* An answer that does not name the function *)
unknown_unnamed(function_name) == Ok([error |-> "Unknown function"])

(* agent.py:553-554 *)
unknown_function(function_name) ==
    Ok([error |-> "Unknown function: " \o function_name])

(* agent.py:385-566.  The answer is the dict returned, with the Receipts   *)
(* collection and the provider's deliveries as the call leaves them.       *)
execute_function_call(function_name, arguments, col, dl, day, env) ==
    CASE function_name = "list_restaurants" ->
            same(call_list_restaurants(arguments, env), col, dl)
      [] function_name = "get_restaurant_menu" ->
            same(call_get_restaurant_menu(arguments, env), col, dl)
      [] function_name = "get_menu_item" ->
            same(call_get_menu_item(arguments, env), col, dl)
      [] function_name = "build_cart" ->
            same(cart_branch(call_with_request(function_name, arguments, env), env),
                 col, dl)
      [] function_name = "compute_cost_estimate" ->
            same(estimate_branch(call_with_request(function_name, arguments, env), env),
                 col, dl)
      [] function_name = "create_receipt" ->
            receipt_branch(call_with_request(function_name, arguments, env),
                           col, dl, day, env)
      [] function_name = "create_delivery" ->
            delivery_branch(DoorDashCreateDeliveryRequest(arguments), col, dl, env)
      [] function_name = "track_delivery" ->
            same(track_branch(arguments, dl, env), col, dl)
      [] OTHER ->
            same(unknown_function(function_name), col, dl)

----------------------------------------------------------------------------
(* Messages and their text.  The content of a user or assistant message is *)
(* [text |-> s], s = "" for None.  A str produced by json.dumps is the     *)
(* value it encodes with its length, and once a prefix of it has been      *)
(* taken (cut) it no longer decodes.                                       *)

Text(s) == [text |-> s]

(* len(json.dumps(result)): an estimate from what the result lists *)
json_len(result) ==
    IF "restaurants" \in DOMAIN result THEN 60 + 600 * Len(result.restaurants)
    ELSE IF "items" \in DOMAIN result THEN 100 + 300 * Len(result.items)
    ELSE 200

json_dumps(result) == [json |-> result, len |-> json_len(result), cut |-> FALSE]

(* The text of a tool call's arguments: valid JSON for value, or not JSON. *)
JsonText(value) == [valid |-> TRUE, value |-> value]

NotJson == [valid |-> FALSE, value |-> <<>>]

json_loads(text) ==
    IF text.valid THEN Ok(text.value)
    ELSE Raise("JSONDecodeError", "Expecting value", 0)

marker_length == 38

(* agent.py:588-592 *)
truncate_large_content(content, max_length) ==
    IF content.len > max_length
    THEN [content EXCEPT !.len = max_length + marker_length, !.cut = TRUE]
    ELSE content

(* A trim that keeps the oldest messages *)
trim_keep_oldest(messages, max) ==
    IF Len(messages) <= max THEN messages ELSE SubSeq(messages, 1, max)

(* A trim that drops the system messages with the oldest ones *)
trim_drop_system(messages, max) ==
    IF Len(messages) <= max THEN messages
    ELSE LET rest == SelectSeq(messages, LAMBDA msg : msg.role # "system")
         IN  IF Len(rest) > max
             THEN SubSeq(rest, Len(rest) - max + 1, Len(rest))
             ELSE rest

(* agent.py:573-585 *)
trim_conversation_history(messages, max) ==
    IF Len(messages) <= max THEN messages
    ELSE LET system_msgs == SelectSeq(messages, LAMBDA msg : msg.role = "system")
             non_system_msgs == SelectSeq(messages, LAMBDA msg : msg.role # "system")
             trimmed_non_system ==
                 IF Len(non_system_msgs) > max
                 THEN SubSeq(non_system_msgs, Len(non_system_msgs) - max + 1,
                             Len(non_system_msgs))
                 ELSE non_system_msgs
         IN  system_msgs \o trimmed_non_system

(* agent.py:595-599, as the history it answers *)
get_or_create_thread(threads, thread_id) ==
    IF thread_id \in DOMAIN threads THEN threads[thread_id] ELSE <<>>

(* A store that holds one thread *)
store_alone(threads, thread_id, history) == [t \in {thread_id} |-> history]

(* conversation_threads[thread_id] = history *)
store(threads, thread_id, history) ==
    [t \in DOMAIN threads \cup {thread_id} |->
        IF t = thread_id THEN history ELSE threads[t]]

(* agent.py:602-604: "thread_" and 12 hexadecimal digits of a random uuid; *)
(* two of the 16^12 values stand for all.                                  *)
generate_thread_id == {"thread_a", "thread_b"}

system_message == [role |-> "system", content |-> Text("You are a helpful assistant")]

apology == "I apologize, but I encountered an issue processing your request. The agent may have exceeded the maximum iterations or encountered an unexpected error."

suggestion == "Please try again. If this is the first request after inactivity, the server may be waking up (can take 50+ seconds on free tier)."

(* A result placed as the dispatcher gave it *)
shape_result_raw(function_result) == function_result

(* agent.py:707-717 *)
shape_result(function_result) ==
    IF "error" \in DOMAIN function_result
    THEN [success |-> FALSE,
          error |-> function_result.error,
          error_type |-> IF "error_type" \in DOMAIN function_result
                         THEN function_result.error_type ELSE "unknown",
          suggestion |-> suggestion]
    ELSE function_result

(* One ceiling for every tool *)
max_length_same(function_name) == other_max_length

(* agent.py:721 *)
max_length_for(function_name) ==
    IF function_name = "list_restaurants" THEN list_max_length ELSE other_max_length

(* An argument text that is not JSON raises out of the loop *)
loads_arguments_uncaught(text) == json_loads(text)

(* agent.py:699-702: text that is not JSON is dispatched as {} *)
caught_decode_error(parsed) ==
    IF parsed.raised = "JSONDecodeError" THEN Ok(<<>>) ELSE parsed

loads_arguments(text) == caught_decode_error(json_loads(text))

(* agent.py:721-728: the tool message that holds the text of a result *)
placed(tool_call, result_json) ==
    [role |-> "tool",
     tool_call_id |-> tool_call.id,
     content |-> truncate_large_content(result_json,
                                        max_length_for(tool_call.function.name))]

(* agent.py:707-728: the tool message that answers a call *)
tool_message(tool_call, function_result) ==
    placed(tool_call, json_dumps(shape_result(function_result)))

(* agent.py:696-728: the tool calls of one response, in order.  An         *)
(* exception that leaves json.loads or the dispatcher leaves the loop      *)
(* (raised), with the collections as the calls before it left them.        *)
(* A loop that leaves after the first call of a response *)
after_first_call(done, tool_calls, messages, day, env) ==
    [raised |-> FALSE,
     messages |-> Append(messages, tool_message(Head(tool_calls), done.result)),
     col |-> done.col, dl |-> done.dl]

RECURSIVE run_tool_calls(_, _, _, _, _, _)
after_call(done, tool_calls, messages, day, env) ==
    IF "escaped" \in DOMAIN done.result
    THEN [raised |-> TRUE, messages |-> messages, col |-> done.col, dl |-> done.dl]
    ELSE run_tool_calls(Tail(tool_calls),
                        Append(messages, tool_message(Head(tool_calls), done.result)),
                        done.col, done.dl, day, env)

with_arguments(function_args, tool_calls, messages, col, dl, day, env) ==
    IF function_args.raised # ""
    THEN [raised |-> TRUE, messages |-> messages, col |-> col, dl |-> dl]
    ELSE after_call(execute_function_call(Head(tool_calls).function.name,
                                          function_args.value, col, dl, day, env),
                    tool_calls, messages, day, env)

run_tool_calls(tool_calls, messages, col, dl, day, env) ==
    IF tool_calls = <<>>
    THEN [raised |-> FALSE, messages |-> messages, col |-> col, dl |-> dl]
    ELSE with_arguments(loads_arguments(Head(tool_calls).function.arguments),
                        tool_calls, messages, col, dl, day, env)

(* A fallback that knows the apology alone *)
fallback_apology(messages, final_response) ==
    IF final_response # "" THEN final_response ELSE apology

(* agent.py:732-753 *)
fallback_response(messages, final_response) ==
    LET texts == SelectSeq(messages, LAMBDA msg :
                     msg.role = "assistant" /\ msg.content.text # "")
        error_messages ==
            SelectSeq(messages, LAMBDA msg :
                msg.role = "tool" /\ ~msg.content.cut
                /\ "error" \in DOMAIN msg.content.json)
    IN  IF final_response # "" THEN final_response
        ELSE IF texts # <<>> THEN Last(texts).content.text
        ELSE IF error_messages # <<>>
             THEN "I encountered an error: " \o Last(error_messages).content.json.error
             ELSE apology

(* A loop that runs once more than max_iterations *)
loop_one_more(iteration) == iteration <= max_iterations

(* agent.py:641 *)
loop_continues(iteration) == iteration < max_iterations

(* A history that keeps the dialogue and drops the results of the tools *)
updated_history_dialogue(messages) ==
    SelectSeq(messages, LAMBDA msg : msg.role \notin {"system", "tool"})

(* agent.py:755-756 *)
updated_history(messages) == SelectSeq(messages, LAMBDA msg : msg.role # "system")

----------------------------------------------------------------------------
(* Where every specification starts: an empty store, an empty Receipts     *)
(* collection, no request running.                                         *)

Workers == {"w1", "w2"}

IdleWorker == [pc |-> "idle", p |-> None, receipt_id |-> <<>>]

(* The frame of a chat request.  given, given_known, known, entry and base *)
(* record what the request met at entry: the thread_id it carried and      *)
(* whether the store held it, whether the store held the thread_id used,   *)
(* the history stored then, and how many messages the list sent to the     *)
(* model held before the first model call.                                 *)
IdleReq ==
    [pc |-> "idle", given |-> "", thread_id |-> "", known |-> FALSE,
     entry |-> <<>>, messages |-> <<>>, base |-> 0, iteration |-> 0,
     calls |-> 0, response |-> "", response_thread_id |-> "", status |-> 0,
     cause |-> "", given_known |-> FALSE]

IdleDisp == [pc |-> "idle"]

InitBase ==
    /\ conversation_threads = <<>>
    /\ req = [n \in 1..MaxRequests |-> IdleReq]
    /\ api_key = TRUE
    /\ receipts = <<>>
    /\ deliveries = <<>>
    /\ clock = 1
    /\ nreq = 0
    /\ budget = MaxSpecial
    /\ rq = [started |-> 0, failed |-> 0]
    /\ workers = [w \in Workers |-> IdleWorker]
    /\ disp = IdleDisp

(* The passing of midnight UTC *)
Tick ==
    /\ clock < MaxDay
    /\ clock' = clock + 1
    /\ UNCHANGED <<conversation_threads, req, api_key, receipts, deliveries,
                   nreq, budget, rq, workers, disp>>

----------------------------------------------------------------------------
(* Create-receipt requests (routers/restaurants.py:169-213 over            *)
(* restaurant_service.py:356-467).                                         *)

ReceiptRequests ==
    { [restaurant_id |-> "r1", items |-> <<[item_id |-> "i1", quantity |-> 1]>>],
      [restaurant_id |-> "r1", items |-> <<[item_id |-> "i2", quantity |-> 2]>>],
      [restaurant_id |-> "r1", items |-> <<[item_id |-> "i9", quantity |-> 1]>>] }

ReceiptEnvs == {[db |-> d, dd |-> "ok"] : d \in {"up", "down", "insert_fails"}}

(* The end of a request: what it left in the collection, and whether it   *)
(* failed                                                                  *)
ReceiptDone(done, started) ==
    /\ receipts' = done.col
    /\ rq' = [started |-> rq.started + started,
              failed |-> rq.failed + (IF done.out.raised # "" THEN 1 ELSE 0)]

(* One request after the other: the whole of create_receipt is one step. *)
SerialReceipt(request, env) ==
    /\ rq.started < MaxSerialReceipts
    /\ ReceiptDone(create_receipt(request, receipts, clock, env), 1)
    /\ UNCHANGED <<conversation_threads, req, api_key, deliveries, clock,
                   nreq, budget, workers, disp>>

NextSerial ==
    \/ \E request \in ReceiptRequests, env \in ReceiptEnvs : SerialReceipt(request, env)
    \/ Tick

SpecSerial == InitBase /\ [][NextSerial]_vars

(* restaurant_service.py:369-425, given the priced request *)
ReceiptPriced(w, p) ==
    IF p.raised # ""
    THEN /\ rq' = [started |-> rq.started + 1, failed |-> rq.failed + 1]
         /\ UNCHANGED workers
    ELSE /\ rq' = [rq EXCEPT !.started = rq.started + 1]
         /\ workers' = [workers EXCEPT ![w] =
                [pc |-> "generated", p |-> p.value,
                 receipt_id |-> generate_receipt_id(receipts, clock)]]

(* Server processes sharing the database: a request validates, reads the   *)
(* clock and counts (restaurant_service.py:369-425), and inserts in a      *)
(* later round trip (427-446).                                             *)
ReceiptStart(w, request, env) ==
    /\ workers[w].pc = "idle"
    /\ rq.started < MaxReceiptRequests
    /\ ReceiptPriced(w, price_items(request, env))
    /\ UNCHANGED <<conversation_threads, req, api_key, receipts, deliveries,
                   clock, nreq, budget, disp>>

ReceiptInsert(w, env) ==
    /\ workers[w].pc = "generated"
    /\ ReceiptDone(db_create_receipt(receipts,
                       receipt_data(workers[w].p, workers[w].receipt_id, clock), env), 0)
    /\ workers' = [workers EXCEPT ![w] = IdleWorker]
    /\ UNCHANGED <<conversation_threads, req, api_key, deliveries, clock,
                   nreq, budget, disp>>

NextReceipts ==
    \/ \E w \in Workers, request \in ReceiptRequests, env \in ReceiptEnvs :
           ReceiptStart(w, request, env)
    \/ \E w \in Workers, env \in ReceiptEnvs : ReceiptInsert(w, env)
    \/ Tick

SpecReceipts == InitBase /\ [][NextReceipts]_vars

----------------------------------------------------------------------------
(* Properties of the receipt identifiers.                                  *)

DigitValue(c) ==
    CASE c = "0" -> 0 [] c = "1" -> 1 [] c = "2" -> 2 [] c = "3" -> 3
      [] c = "4" -> 4 [] c = "5" -> 5 [] c = "6" -> 6 [] c = "7" -> 7
      [] c = "8" -> 8 [] c = "9" -> 9 [] OTHER -> 0 - 1

RECURSIVE DecimalValue(_)
DecimalValue(s) ==
    IF s = <<>> THEN 0
    ELSE 10 * DecimalValue(SubSeq(s, 1, Len(s) - 1)) + DigitValue(Last(s))

(* The characters after "RCP-YYYYMMDD-" *)
SequencePart(receipt_id) == SubSeq(receipt_id, 14, Len(receipt_id))

(* How many receipts of the same UTC day were persisted up to the i-th *)
DayRank(i) ==
    Cardinality({j \in 1..i : receipts[j].created_at = receipts[i].created_at})

(* C4: no two persisted receipts carry the same receipt_id, whatever the   *)
(* interleaving of the requests that created them.                         *)
C4_UniqueReceiptIds ==
    \A i, j \in 1..Len(receipts) :
        i # j => receipts[i].receipt_id # receipts[j].receipt_id

----------------------------------------------------------------------------
(* The chat handler (agent.py:607-771) on one server process.              *)

(* What the model may answer.  A response is [content, tool_calls],        *)
(* content = "" for None.                                                   *)

ToolCall(id, name, arguments) ==
    [id |-> id, type |-> "function",
     function |-> [name |-> name, arguments |-> arguments]]

OrderArguments ==
    [restaurant_name |-> <<"s", "u", "b">>,
     items |-> <<[item_name |-> <<"a">>, quantity |-> 1]>>]

DeliveryArguments ==
    [external_delivery_id |-> "D-1", pickup_address |-> "1 Pine St",
     pickup_business_name |-> "Sub", pickup_phone_number |-> "+1650",
     dropoff_address |-> "2 Oak St", dropoff_phone_number |-> "+1415"]

(* The responses explored beside PlainCalls: the text flag, the tool calls *)
(* as a sequence of <<tool name, argument text>>, and the state of the     *)
(* services that meets them.                                               *)
SpecialTurns ==
    { [has_text |-> FALSE, env |-> GoodEnv,
       calls |-> << <<"create_receipt", JsonText(OrderArguments)>>,
                    <<"create_delivery", JsonText(DeliveryArguments)>> >>],
      [has_text |-> FALSE, env |-> [db |-> "insert_fails", dd |-> "rejected"],
       calls |-> << <<"create_receipt", JsonText(OrderArguments)>>,
                    <<"create_delivery", JsonText(DeliveryArguments)>> >>],
      [has_text |-> TRUE, env |-> GoodEnv,
       calls |-> << <<"create_delivery", JsonText(DeliveryArguments)>> >>],
      [has_text |-> FALSE, env |-> GoodEnv,
       calls |-> << <<"get_restaurant_menu", NotJson>> >>],
      [has_text |-> TRUE, env |-> [db |-> "down", dd |-> "unreachable"],
       calls |-> << <<"get_restaurant_menu", JsonText([restaurant_name |-> <<"z">>])>> >>],
      [has_text |-> FALSE, env |-> GoodEnv,
       calls |-> << <<"order_pizza", NotJson>> >>],
      [has_text |-> FALSE, env |-> GoodEnv,
       calls |-> << <<"track_delivery", JsonText([nondict |-> TRUE])>>,
                    <<"create_receipt", JsonText(OrderArguments)>> >>],
      [has_text |-> FALSE, env |-> GoodEnv,
       calls |-> << <<"create_receipt", JsonText(OrderArguments)>>,
                    <<"list_restaurants", JsonText(<<>>)>>,
                    <<"create_receipt", JsonText(OrderArguments)>> >>],
      [has_text |-> FALSE, env |-> GoodEnv,
       calls |-> << <<"get_restaurant_menu", JsonText([restaurant_name |-> <<"m">>])>>,
                    <<"get_restaurant_menu", JsonText([restaurant_name |-> <<"s", "u", "b">>])>>,
                    <<"get_restaurant_menu", JsonText([restaurant_name |-> <<"z">>])>>,
                    <<"get_restaurant_menu", NotJson>> >>] }

PlainCalls == << <<"list_restaurants", JsonText(<<>>)>> >>

Tag(n, k) == ToString(n) \o "." \o ToString(k)

(* The k-th response to request n with the given text and calls *)
Response(n, k, has_text, calls) ==
    [content |-> IF has_text THEN "t" \o Tag(n, k) ELSE "",
     tool_calls |-> [i \in 1..Len(calls) |->
                        ToolCall("call" \o Tag(n, k) \o "." \o ToString(i),
                                 calls[i][1], calls[i][2])]]

(* A loop that starts requests while another is waiting for the model *)
event_loop_shared == TRUE

(* agent.py:608: agent_chat is a coroutine that never awaits (the model is *)
(* called through the blocking client), so the event loop runs a request   *)
(* from entry to return before it starts another.                          *)
event_loop_idle == \A n \in DOMAIN req : req[n].pc # "awaiting"

(* Every request is served under a minted id *)
always_minted(given, minted) == minted

(* agent.py:614: thread_id = request.thread_id or generate_thread_id() *)
thread_id_for(given, minted) == IF given # "" THEN given ELSE minted

TotalCalls == SumSeq([n \in 1..MaxRequests |-> req[n].calls])

ThreadIdsGiven == {"", "c1"}

(* The system prompt before every history *)
always_prompted(conversation_history) == <<system_message>>

(* agent.py:634: messages = [system_message] if len(history) == 1 else [] *)
first_messages(conversation_history) ==
    IF Len(conversation_history) = 1 THEN <<system_message>> ELSE <<>>

(* agent.py:610-635: up to the first model call *)
AgentChat(n, given, minted) ==
    /\ n = nreq + 1
    /\ n <= MaxRequests
    /\ event_loop_idle
    /\ nreq' = n
    /\ IF ~api_key
       THEN /\ req' = [req EXCEPT ![n] =
                   [IdleReq EXCEPT !.pc = "failed", !.given = given,
                                   !.status = 500, !.cause = "no_api_key"]]
            /\ UNCHANGED conversation_threads
       ELSE LET thread_id == thread_id_for(given, minted)
                history == get_or_create_thread(conversation_threads, thread_id)
                conversation_history ==
                    Append(trim_conversation_history(history, max_messages),
                           [role |-> "user", content |-> Text("p" \o ToString(n))])
                messages == first_messages(conversation_history) \o conversation_history
            IN  /\ conversation_threads' =
                       store(conversation_threads, thread_id, conversation_history)
                /\ req' = [req EXCEPT ![n] =
                       [IdleReq EXCEPT !.pc = "awaiting", !.given = given,
                                       !.thread_id = thread_id,
                                       !.known = thread_id \in DOMAIN conversation_threads,
                                       !.given_known = given \in DOMAIN conversation_threads,
                                       !.entry = history,
                                       !.messages = messages,
                                       !.base = Len(messages)]]
    /\ UNCHANGED <<api_key, receipts, deliveries, clock, budget, rq, workers, disp>>

(* A loop that goes on after a response without tool calls *)
never_breaks(response) == FALSE

(* agent.py:692 *)
no_tool_calls(response) == response.tool_calls = <<>>

(* agent.py:732-761: the response and the write of the history *)
Return(n, messages, final_response, calls, iteration) ==
    /\ conversation_threads' =
           store(conversation_threads, req[n].thread_id,
                 trim_conversation_history(updated_history(messages), max_messages))
    /\ req' = [req EXCEPT ![n] =
           [@ EXCEPT !.pc = "returned", !.messages = messages, !.calls = calls,
                     !.iteration = iteration, !.status = 200,
                     !.response = fallback_response(messages, final_response),
                     !.response_thread_id = req[n].thread_id]]

(* agent.py:673-690: the assistant message kept for a response *)
assistant_msg_dict(response) ==
    IF response.tool_calls # <<>>
    THEN [role |-> "assistant", content |-> Text(response.content),
          tool_calls |-> response.tool_calls]
    ELSE [role |-> "assistant", content |-> Text(response.content)]

(* agent.py:696-730: after the tool calls of a response *)
AfterTools(n, ran) ==
    /\ receipts' = ran.col
    /\ deliveries' = ran.dl
    /\ IF ran.raised
       THEN /\ req' = [req EXCEPT ![n] =
                   [@ EXCEPT !.pc = "failed", !.messages = ran.messages,
                             !.calls = req[n].calls + 1, !.status = 500,
                             !.cause = "tool"]]
            /\ UNCHANGED conversation_threads
       ELSE IF loop_continues(req[n].iteration + 1)
       THEN /\ req' = [req EXCEPT ![n] =
                   [@ EXCEPT !.messages = ran.messages, !.calls = req[n].calls + 1,
                             !.iteration = req[n].iteration + 1]]
            /\ UNCHANGED conversation_threads
       ELSE Return(n, ran.messages, "", req[n].calls + 1, req[n].iteration + 1)

(* agent.py:641-730: one turn of the loop, from the model's response to    *)
(* the next model call, the return or the exception.                       *)
ModelResponds(n, response, env) ==
    /\ req[n].pc = "awaiting"
    /\ loop_continues(req[n].iteration)
    /\ IF no_tool_calls(response)
       THEN /\ Return(n, Append(req[n].messages, assistant_msg_dict(response)),
                      response.content, req[n].calls + 1, req[n].iteration)
            /\ UNCHANGED <<receipts, deliveries>>
       ELSE AfterTools(n, run_tool_calls(response.tool_calls,
                              Append(req[n].messages, assistant_msg_dict(response)),
                              receipts, deliveries, clock, env))
    /\ UNCHANGED <<api_key, clock, nreq, rq, workers, disp>>

(* What the model answers to a request: PlainCalls   without text, text      *)
(* alone or None alone, or one of SpecialTurns; the latter are explored in *)
(* the last request.                                                       *)
ModelTurns ==
    {[kind |-> "plain", has_text |-> FALSE, env |-> GoodEnv, calls |-> PlainCalls]}
    \cup {[kind |-> "text", has_text |-> b, env |-> GoodEnv, calls |-> <<>>] :
             b \in BOOLEAN}
    \cup {[kind |-> "special", has_text |-> t.has_text, env |-> t.env,
           calls |-> t.calls] : t \in SpecialTurns}

ModelAnswers(n, turn) ==
    /\ TotalCalls < MaxModelCalls
    /\ IF turn.kind = "special"
       THEN n = MaxRequests /\ budget > 0 /\ budget' = budget - 1
       ELSE UNCHANGED budget
    /\ ModelResponds(n, Response(n, req[n].calls + 1, turn.has_text, turn.calls),
                     turn.env)

(* A handler that puts the history at entry back *)
rolled_back(threads, thread_id, entry) == store(threads, thread_id, entry)

(* agent.py:763-771: the handlers of the exception write nothing *)
after_failure(threads, thread_id, entry) == threads

(* agent.py:662-669 and 763-771: the call of the model raises *)
ModelCallFails(n) ==
    /\ req[n].pc = "awaiting"
    /\ req' = [req EXCEPT ![n] =
           [@ EXCEPT !.pc = "failed", !.status = 500, !.cause = "model_call"]]
    /\ conversation_threads' =
           after_failure(conversation_threads, req[n].thread_id, req[n].entry)
    /\ UNCHANGED <<api_key, receipts, deliveries, clock,
                   nreq, budget, rq, workers, disp>>

Init ==
    /\ api_key \in BOOLEAN
    /\ conversation_threads = <<>>
    /\ req = [n \in 1..MaxRequests |-> IdleReq]
    /\ receipts = <<>>
    /\ deliveries = <<>>
    /\ clock = 1
    /\ nreq = 0
    /\ budget = MaxSpecial
    /\ rq = [started |-> 0, failed |-> 0]
    /\ workers = [w \in Workers |-> IdleWorker]
    /\ disp = IdleDisp

Next ==
    \/ \E n \in 1..MaxRequests, given \in ThreadIdsGiven, minted \in generate_thread_id :
           AgentChat(n, given, minted)
    \/ \E n \in 1..MaxRequests, turn \in ModelTurns : ModelAnswers(n, turn)
    \/ \E n \in 1..MaxRequests : ModelCallFails(n)

Spec == Init /\ [][Next]_vars

(* The same handler where the first response to any request may carry two *)
(* tool calls, and every response one, or text alone.                      *)
TwoCalls == PlainCalls \o PlainCalls

FreeTurns ==
    {[has_text |-> FALSE, env |-> GoodEnv, calls |-> PlainCalls],
     [has_text |-> FALSE, env |-> GoodEnv, calls |-> TwoCalls],
     [has_text |-> TRUE, env |-> GoodEnv, calls |-> <<>>]}

ModelAnswersFreely(n, turn) ==
    /\ TotalCalls < MaxModelCalls
    /\ turn.calls = TwoCalls => req[n].calls = 0
    /\ UNCHANGED budget
    /\ ModelResponds(n, Response(n, req[n].calls + 1, turn.has_text, turn.calls),
                     turn.env)

NextTurns ==
    \/ \E n \in 1..MaxRequests, given \in ThreadIdsGiven, minted \in generate_thread_id :
           AgentChat(n, given, minted)
    \/ \E n \in 1..MaxRequests, turn \in FreeTurns : ModelAnswersFreely(n, turn)
    \/ \E n \in 1..MaxRequests : ModelCallFails(n)

SpecTurns == Init /\ [][NextTurns]_vars

----------------------------------------------------------------------------
(* The dispatcher on its own: every tool name against every argument       *)
(* value below, in every state of the services.                            *)

ToolNames == DeclaredTools \cup {"order_pizza", "List_Restaurants", ""}

NameValues == {<<"s", "u", "b">>, <<"z">>, <<>>, NotStr}

ItemNameValues == {<<"a">>, <<"z">>, NotStr}

ItemsValues ==
    { <<[item_name |-> <<"a">>, quantity |-> 1]>>,
      <<[item_name |-> <<"a">>, quantity |-> 2], [item_name |-> <<"a", "b">>, quantity |-> 1]>>,
      <<[item_name |-> <<"a">>, quantity |-> 1], [item_name |-> <<"a">>, quantity |-> 1]>>,
      <<[item_name |-> <<"a">>, quantity |-> 0 - 1]>>,
      <<[item_name |-> <<"a">>, quantity |-> 0]>>,
      <<[item_name |-> <<"a">>, quantity |-> 1], [item_name |-> <<"a", "b">>, quantity |-> 0 - 2]>>,
      <<[item_name |-> <<"a">>, quantity |-> NotInt]>>,
      <<[item_name |-> <<"a">>]>>,
      <<[item_name |-> <<"z">>, quantity |-> 1]>>,
      <<[item_name |-> NotStr, quantity |-> 1]>>,
      <<[nondict |-> TRUE]>>,
      <<>> }

ArgumentValues ==
    {[nondict |-> TRUE], <<>>}
    \cup {[restaurant_name |-> r] : r \in NameValues}
    \cup {[restaurant_name |-> r, item_name |-> i] : r \in NameValues, i \in ItemNameValues}
    \cup {[item_name |-> i] : i \in ItemNameValues}
    \cup {[restaurant_name |-> r, items |-> l] : r \in NameValues, l \in ItemsValues}
    \cup {[items |-> l] : l \in ItemsValues}
    \cup {[restaurant_name |-> <<"s", "u", "b">>,
           items |-> <<[item_name |-> <<"a">>, quantity |-> 1]>>,
           customer_name |-> c] : c \in {"Ann", NotStrS}}
    \cup {[limit |-> l] : l \in {NotInt, 0 - 1, 0, 1, 20, 21, 100, 101}}
    \cup {[limit |-> 1, skip |-> k] : k \in {NotInt, 0 - 1, 0, 1, 5}}
    \cup {[limit |-> 21, skip |-> k] : k \in {1, 2}}
    \cup {[external_delivery_id |-> d] : d \in {"", "D-1", "D-2", NotStrS}}
    \cup {DeliveryArguments,
          [DeliveryArguments EXCEPT !.dropoff_address = NotStrS],
          [f \in RequiredDeliveryFields \ {"pickup_address"} |-> DeliveryArguments[f]]}

InitDispatch ==
    /\ conversation_threads = <<>>
    /\ req = [n \in 1..MaxRequests |-> IdleReq]
    /\ api_key = TRUE
    /\ receipts = <<>>
    /\ deliveries \in {<<>>, <<"D-1">>}
    /\ clock = 1
    /\ nreq = 0
    /\ budget = MaxSpecial
    /\ rq = [started |-> 0, failed |-> 0]
    /\ workers = [w \in Workers |-> IdleWorker]
    /\ disp \in [pc : {"call"}, function_name : ToolNames,
                 arguments : ArgumentValues, env : Envs]

Dispatched(done) ==
    /\ disp' = [pc |-> "done", function_name |-> disp.function_name,
                arguments |-> disp.arguments, env |-> disp.env,
                result |-> done.result]
    /\ receipts' = done.col
    /\ deliveries' = done.dl

Dispatch ==
    /\ disp.pc = "call"
    /\ Dispatched(execute_function_call(disp.function_name, disp.arguments,
                                        receipts, deliveries, clock, disp.env))
    /\ UNCHANGED <<conversation_threads, req, api_key, clock, nreq, budget, rq, workers>>

NextDispatch == Dispatch

SpecDispatch == InitDispatch /\ [][NextDispatch]_vars

----------------------------------------------------------------------------
(* The REST handlers of the cart, the cost estimate and the receipt        *)
(* (routers/restaurants.py:95-213): one request body, in one state of the  *)
(* database, handed to each of the three handlers; and beside them the     *)
(* three tools of the dispatcher that reach the same service.              *)

(* models.py:167-169, 242-244, 384-386 over 153-156: the body is validated *)
(* before the handler runs (restaurant_id: str, items: List[CartItem] with *)
(* min_items=1, quantity: int >= 1); a body that fails is answered 422.    *)
validate_body(body) ==
    IF \/ "restaurant_id" \notin DOMAIN body
       \/ "items" \notin DOMAIN body
       \/ body.items = <<>>
       \/ \E i \in 1..Len(body.items) :
              \/ "item_id" \notin DOMAIN body.items[i]
              \/ "quantity" \notin DOMAIN body.items[i]
              \/ body.items[i].quantity = NotInt
              \/ CartItem(body.items[i]).raised # ""
    THEN Raise("RequestValidationError", "Unprocessable Entity", 422)
    ELSE Ok(body)

(* routers/restaurants.py:130-136, 163-169, 207-213: the handler's try.    *)
(* what is the text of its 500: "building cart", "computing cost           *)
(* estimate", "creating receipt".                                          *)
router_response(o, what) ==
    CASE o.raised = "" -> [status_code |-> 200, body |-> o.value]
      [] o.raised \in {"HTTPException", "RequestValidationError"} ->
            [status_code |-> o.status_code, detail |-> o.detail]
      [] OTHER ->
            [status_code |-> 500, detail |-> "Error " \o what \o ": " \o exc_str(o)]

(* routers/restaurants.py:95-136 *)
router_build_cart(request, env) ==
    IF request.raised # "" THEN router_response(request, "building cart")
    ELSE router_response(build_cart(request.value, env), "building cart")

(* routers/restaurants.py:139-169 *)
router_compute_cost_estimate(request, env) ==
    IF request.raised # "" THEN router_response(request, "computing cost estimate")
    ELSE router_response(compute_cost_estimate(request.value, env),
                         "computing cost estimate")

(* routers/restaurants.py:172-213 over the service's answer *)
router_receipt_answer(done) ==
    [response |-> router_response(done.out, "creating receipt"), col |-> done.col]

(* routers/restaurants.py:172-213 *)
router_create_receipt(request, col, day, env) ==
    IF request.raised # ""
    THEN [response |-> router_response(request, "creating receipt"), col |-> col]
    ELSE router_receipt_answer(create_receipt(request.value, col, day, env))

ItemIdValues == {"i1", "i2", "i9", "zz"}

LineValues ==
    {[item_id |-> i, quantity |-> q] : i \in ItemIdValues, q \in {1, 2}}
    \cup {[item_id |-> "i1", quantity |-> 0], [item_id |-> "i1", quantity |-> 0 - 1],
          [item_id |-> "i1", quantity |-> NotInt], [item_id |-> "i1"]}

BodyValues ==
    {[restaurant_id |-> r, items |-> l] :
        r \in {"r1", "r2", "r9", "zz"},
        l \in {<<>>} \cup {<<a>> : a \in LineValues}
              \cup {<<a, b>> : a \in LineValues, b \in LineValues}}

NotCalled == [status_code |-> 0]

RestFrames ==
    [pc : {"rest"}, body : BodyValues, env : ReceiptEnvs,
     cart : {NotCalled}, estimate : {NotCalled}, receipt : {NotCalled}]

OrderTools == {"build_cart", "compute_cost_estimate", "create_receipt"}

OrderToolFrames ==
    [pc : {"call"}, function_name : OrderTools,
     arguments : {a \in ArgumentValues :
                     {"restaurant_name", "items"} \subseteq DOMAIN a},
     env : ReceiptEnvs]

InitService ==
    /\ conversation_threads = <<>>
    /\ req = [n \in 1..MaxRequests |-> IdleReq]
    /\ api_key = TRUE
    /\ receipts = <<>>
    /\ deliveries = <<>>
    /\ clock = 1
    /\ nreq = 0
    /\ budget = MaxSpecial
    /\ rq = [started |-> 0, failed |-> 0]
    /\ workers = [w \in Workers |-> IdleWorker]
    /\ disp \in RestFrames \cup OrderToolFrames

BuildCart ==
    /\ disp.pc = "rest"
    /\ disp.cart = NotCalled
    /\ disp' = [disp EXCEPT !.cart =
                   router_build_cart(validate_body(disp.body), disp.env)]
    /\ UNCHANGED <<conversation_threads, req, api_key, receipts, deliveries, clock,
                   nreq, budget, rq, workers>>

CostEstimate ==
    /\ disp.pc = "rest"
    /\ disp.estimate = NotCalled
    /\ disp' = [disp EXCEPT !.estimate =
                   router_compute_cost_estimate(validate_body(disp.body), disp.env)]
    /\ UNCHANGED <<conversation_threads, req, api_key, receipts, deliveries, clock,
                   nreq, budget, rq, workers>>

ReceiptCreated(done) ==
    /\ disp' = [disp EXCEPT !.receipt = done.response]
    /\ receipts' = done.col

CreateReceipt ==
    /\ disp.pc = "rest"
    /\ disp.receipt = NotCalled
    /\ ReceiptCreated(router_create_receipt(validate_body(disp.body), receipts,
                                            clock, disp.env))
    /\ UNCHANGED <<conversation_threads, req, api_key, deliveries, clock,
                   nreq, budget, rq, workers>>

NextService ==
    \/ BuildCart
    \/ CostEstimate
    \/ CreateReceipt
    \/ Dispatch

SpecService == InitService /\ [][NextService]_vars

----------------------------------------------------------------------------
(* Create-receipt requests over REST, one after the other, good ones and   *)
(* ones that fail, on the days of the clock.                               *)

GoodLine == [item_id |-> "i1", quantity |-> 1]

ReceiptBodies ==
    {[restaurant_id |-> "r1", items |-> <<GoodLine>>],
     [restaurant_id |-> "r9", items |-> <<GoodLine>>],
     [restaurant_id |-> "zz", items |-> <<GoodLine>>],
     [restaurant_id |-> "r1", items |-> <<GoodLine, [item_id |-> "i9", quantity |-> 1]>>],
     [restaurant_id |-> "r1", items |-> <<[item_id |-> "zz", quantity |-> 1]>>],
     [restaurant_id |-> "r1", items |-> <<GoodLine, [item_id |-> "i2", quantity |-> 0]>>],
     [restaurant_id |-> "r1", items |-> <<[item_id |-> "i1"]>>]}

(* routers/restaurants.py:172-213: the request, its answer and what it     *)
(* left in the collection                                                  *)
ReceiptCall(body, env) ==
    /\ rq.started < MaxReceiptCalls
    /\ LET done == router_create_receipt(validate_body(body), receipts, clock, env)
       IN  /\ receipts' = done.col
           /\ disp' = [pc |-> "receipt", body |-> body, env |-> env,
                       response |-> done.response]
           /\ rq' = [started |-> rq.started + 1,
                     failed |-> rq.failed
                                + (IF done.response.status_code >= 400 THEN 1 ELSE 0)]
    /\ UNCHANGED <<conversation_threads, req, api_key, deliveries, clock,
                   nreq, budget, workers>>

NextReceiptCalls ==
    \/ \E body \in ReceiptBodies, env \in ReceiptEnvs : ReceiptCall(body, env)
    \/ Tick

SpecReceiptCalls == InitBase /\ [][NextReceiptCalls]_vars

----------------------------------------------------------------------------
(* Name resolution on its own (agent.py:29-71): every restaurant name and  *)
(* item name below, with the database answering or not.                    *)

MaxNameLen == 3

MaxItemNameLen == 2

(* The strs of at most n characters of the alphabet *)
StrsUpTo(alphabet, n) ==
    UNION {[1..k -> alphabet] : k \in 0..n}

RestaurantNameValues == StrsUpTo({"s", "S", "u", "U", "b"}, MaxNameLen) \cup {NotStr}

ResolveItemNameValues == StrsUpTo({"a", "A", "b", "z"}, MaxItemNameLen) \cup {NotStr}

NotResolved == [raised |-> "not called"]

InitResolve ==
    /\ conversation_threads = <<>>
    /\ req = [n \in 1..MaxRequests |-> IdleReq]
    /\ api_key = TRUE
    /\ receipts = <<>>
    /\ deliveries = <<>>
    /\ clock = 1
    /\ nreq = 0
    /\ budget = MaxSpecial
    /\ rq = [started |-> 0, failed |-> 0]
    /\ workers = [w \in Workers |-> IdleWorker]
    /\ disp \in [pc : {"resolve"}, restaurant_name : RestaurantNameValues,
                 item_name : ResolveItemNameValues,
                 env : {[db |-> d, dd |-> "ok"] : d \in {"up", "down"}},
                 restaurant : {NotResolved}, item : {NotResolved}]

ResolveRestaurant ==
    /\ disp.pc = "resolve"
    /\ disp.restaurant = NotResolved
    /\ disp' = [disp EXCEPT !.restaurant =
                   resolve_restaurant_name_to_id(disp.restaurant_name, disp.env)]
    /\ UNCHANGED <<conversation_threads, req, api_key, receipts, deliveries, clock,
                   nreq, budget, rq, workers>>

ResolveItem ==
    /\ disp.pc = "resolve"
    /\ disp.item = NotResolved
    /\ disp' = [disp EXCEPT !.item =
                   resolve_item_name_to_id(disp.restaurant_name, disp.item_name,
                                           disp.env)]
    /\ UNCHANGED <<conversation_threads, req, api_key, receipts, deliveries, clock,
                   nreq, budget, rq, workers>>

NextResolve ==
    \/ ResolveRestaurant
    \/ ResolveItem

SpecResolve == InitResolve /\ [][NextResolve]_vars

----------------------------------------------------------------------------
(* The functions of the chat handler on their own (agent.py:573-592):      *)
(* one input, handed to the function it is for.                            *)

(* The i-th message of a list, a system message where system holds i *)
MessageAt(i, system) ==
    [role |-> IF i \in system THEN "system"
              ELSE IF i % 2 = 1 THEN "user" ELSE "assistant",
     content |-> Text(ToString(i))]

(* The places of the system messages in a list of n: none, one or two *)
SystemPlaces(n) == {{a, b} \ {0} : a, b \in 0..n}

(* Every list of up to MaxTrimLen messages with its system messages at     *)
(* any places                                                              *)
TrimInputs ==
    UNION {{[i \in 1..n |-> MessageAt(i, S)] : S \in SystemPlaces(n)} :
              n \in 0..MaxTrimLen}

NotApplied == [applied |-> FALSE]

TrimFrames == [pc : {"trim"}, messages : TrimInputs, out : {NotApplied}]

(* The lengths of the texts of results: short ones, and the ones about the *)
(* two ceilings                                                            *)
ResultLengths ==
    {2, 200, other_max_length - 1, other_max_length, other_max_length + 1,
     other_max_length + marker_length, list_max_length - 1, list_max_length,
     list_max_length + 1, 2 * list_max_length}

(* The text of a result of the given length *)
ResultTexts ==
    {[json |-> [total_items |-> len], len |-> len, cut |-> FALSE] :
         len \in ResultLengths}

PlaceFrames ==
    [pc : {"place"}, function_name : ToolNames, result_json : ResultTexts,
     out : {NotApplied}]

InitFunctions ==
    /\ conversation_threads = <<>>
    /\ req = [n \in 1..MaxRequests |-> IdleReq]
    /\ api_key = TRUE
    /\ receipts = <<>>
    /\ deliveries = <<>>
    /\ clock = 1
    /\ nreq = 0
    /\ budget = MaxSpecial
    /\ rq = [started |-> 0, failed |-> 0]
    /\ workers = [w \in Workers |-> IdleWorker]
    /\ disp \in TrimFrames \cup PlaceFrames

Trim ==
    /\ disp.pc = "trim"
    /\ disp.out = NotApplied
    /\ disp' = [disp EXCEPT !.out =
                   [applied |-> TRUE,
                    value |-> trim_conversation_history(disp.messages, max_messages)]]
    /\ UNCHANGED <<conversation_threads, req, api_key, receipts, deliveries, clock,
                   nreq, budget, rq, workers>>

(* agent.py:719-728, given the text of the result *)
Place ==
    /\ disp.pc = "place"
    /\ disp.out = NotApplied
    /\ disp' = [disp EXCEPT !.out =
                   [applied |-> TRUE,
                    value |-> placed(ToolCall("call1", disp.function_name, JsonText(<<>>)),
                                     disp.result_json)]]
    /\ UNCHANGED <<conversation_threads, req, api_key, receipts, deliveries, clock,
                   nreq, budget, rq, workers>>

NextFunctions ==
    \/ Trim
    \/ Place

SpecFunctions == InitFunctions /\ [][NextFunctions]_vars

(* agent.py:93-383: the keys the declaration of each tool requires *)
RequiredKeys(function_name) ==
    CASE function_name = "get_restaurant_menu" -> {"restaurant_name"}
      [] function_name = "get_menu_item" -> {"restaurant_name", "item_name"}
      [] function_name \in {"build_cart", "compute_cost_estimate", "create_receipt"} ->
            {"restaurant_name", "items"}
      [] function_name = "create_delivery" -> RequiredDeliveryFields
      [] function_name = "track_delivery" -> {"external_delivery_id"}
      [] OTHER -> {}

----------------------------------------------------------------------------
(* Properties of the dispatcher.                                           *)

LacksRequired(function_name, arguments) ==
    IsDict(arguments)
    /\ \E k \in RequiredKeys(function_name) : k \notin DOMAIN arguments

Malformed(function_name, arguments) ==
    ~IsDict(arguments) \/ LacksRequired(function_name, arguments)

(* C3 as stated: the dispatcher never raises, and every declared tool      *)
(* given a malformed argument set (no dict, or a dict that lacks a         *)
(* required key) answers with both an error and an error_type field.       *)
C3_ErrorAndErrorType ==
    disp.pc = "done" =>
        /\ "escaped" \notin DOMAIN disp.result
        /\ (disp.function_name \in DeclaredTools
            /\ Malformed(disp.function_name, disp.arguments))
           => {"error", "error_type"} \subseteq DOMAIN disp.result

(* C3: the dispatcher never raises, whatever the tool name, the arguments  *)
(* and the state of the services; every declared tool given a malformed    *)
(* argument set answers with an error field; error_type comes only with an *)
(* error and only from the outer handlers ("http_exception" with a         *)
(* status_code, or "unexpected_error"), and a dict that lacks a required   *)
(* key is answered with an error and no error_type.                        *)
C3_NeverRaises ==
    disp.pc = "done" =>
        /\ "escaped" \notin DOMAIN disp.result
        /\ (disp.function_name \in DeclaredTools
            /\ Malformed(disp.function_name, disp.arguments))
           => "error" \in DOMAIN disp.result
        /\ "error_type" \in DOMAIN disp.result =>
              /\ "error" \in DOMAIN disp.result
              /\ \/ disp.result.error_type = "unexpected_error"
                 \/ /\ disp.result.error_type = "http_exception"
                    /\ "status_code" \in DOMAIN disp.result
        /\ (disp.function_name \in DeclaredTools
            /\ LacksRequired(disp.function_name, disp.arguments))
           => "error_type" \notin DOMAIN disp.result
        /\ (disp.function_name \in DeclaredTools \ {"create_delivery"}
            /\ ~IsDict(disp.arguments))
           => /\ "error_type" \in DOMAIN disp.result
              /\ disp.result.error_type = "unexpected_error"
        /\ disp.function_name \notin DeclaredTools =>
              DOMAIN disp.result = {"error"}

(* A declared tool called without a key it requires has answered *)
C3_Witness ==
    /\ disp.pc = "done"
    /\ disp.function_name = "create_receipt"
    /\ disp.arguments = [restaurant_name |-> <<"s", "u", "b">>]
    /\ disp.result = [error |-> "restaurant_name and items are required"]

----------------------------------------------------------------------------
(* Properties of the chat handler.                                         *)

Max(S) == CHOOSE x \in S : \A y \in S : y <= x

Entered(n) == req[n].pc \in {"awaiting", "returned", "failed"} /\ req[n].base > 0

Returned(n) == req[n].pc = "returned"

(* Where the messages the run produced stand in the list *)
ProducedAt(n) == (req[n].base + 1)..Len(req[n].messages)

IsToolRequest(msg) == msg.role = "assistant" /\ "tool_calls" \in DOMAIN msg

(* Every response of the model so far asked for a tool *)
AllToolRequests(n) ==
    \A i \in ProducedAt(n) :
        req[n].messages[i].role = "assistant" => IsToolRequest(req[n].messages[i])

ModelResponses(n) ==
    Cardinality({i \in ProducedAt(n) : req[n].messages[i].role = "assistant"})

LastNonEmptyText(msgs) ==
    LET at == {i \in 1..Len(msgs) :
                  msgs[i].role = "assistant" /\ msgs[i].content.text # ""}
    IN  IF at = {} THEN "" ELSE msgs[Max(at)].content.text

ToolErrorsAt(msgs) ==
    {i \in 1..Len(msgs) : /\ msgs[i].role = "tool"
                          /\ ~msgs[i].content.cut
                          /\ "error" \in DOMAIN msgs[i].content.json}

(* The response when the loop left no text: the last non-empty assistant   *)
(* text of the list, else the last tool error, else the apology.           *)
IsFallback(response, msgs) ==
    IF LastNonEmptyText(msgs) # "" THEN response = LastNonEmptyText(msgs)
    ELSE IF ToolErrorsAt(msgs) # {}
    THEN response = "I encountered an error: "
                    \o msgs[Max(ToolErrorsAt(msgs))].content.json.error
    ELSE response = apology

(* C1: a request receives at most max_iterations (10) responses of the     *)
(* model, and is no longer waiting for the model once it has received the  *)
(* tenth; a request that returned after nothing but tool requests received *)
(* exactly ten and returns the last non-empty assistant text, else the     *)
(* fallback string.                                                        *)
C1_IterationCap ==
    \A n \in 1..MaxRequests :
        /\ req[n].calls <= max_iterations
        /\ Entered(n) /\ req[n].cause # "tool" => req[n].calls = ModelResponses(n)
        /\ req[n].pc = "awaiting" => req[n].calls < max_iterations
        /\ (Returned(n) /\ AllToolRequests(n)) =>
              /\ req[n].calls = max_iterations
              /\ req[n].status = 200
              /\ IsFallback(req[n].response, req[n].messages)

(* A request that met ten tool requests has returned *)
C1_Witness ==
    \E n \in 1..MaxRequests :
        /\ Returned(n) /\ AllToolRequests(n) /\ ModelResponses(n) = 10
        /\ req[n].response = apology

(* C2: no tool call ends a request.  A request that reached the loop fails *)
(* (HTTP 500) only when the call of the model raises; every tool call of a *)
(* response is answered by a tool message carrying its id, in order; and a *)
(* call whose argument text is no JSON is answered as the same tool called *)
(* with empty arguments.                                                   *)
C2_ToolCallsNeverAbort ==
    \A n \in 1..MaxRequests :
        /\ req[n].pc = "failed" =>
              /\ req[n].status = 500
              /\ req[n].cause \in {"model_call", "no_api_key"}
        /\ Entered(n) =>
              \A i \in ProducedAt(n) :
                  IsToolRequest(req[n].messages[i]) =>
                      \A j \in 1..Len(req[n].messages[i].tool_calls) :
                          LET tool_call == req[n].messages[i].tool_calls[j]
                              name == tool_call.function.name
                              answer == req[n].messages[i + j]
                          IN  /\ i + j <= Len(req[n].messages)
                              /\ answer.role = "tool"
                              /\ answer.tool_call_id = tool_call.id
                              /\ ~tool_call.function.arguments.valid =>
                                    \E env \in Envs :
                                        answer.content =
                                            truncate_large_content(
                                                json_dumps(shape_result(
                                                    execute_function_call(name, <<>>,
                                                        <<>>, <<>>, clock, env).result)),
                                                max_length_for(name))

(* A request went on to return after a call whose arguments were no JSON *)
C2_Witness ==
    \E n \in 1..MaxRequests :
        /\ Returned(n)
        /\ \E i \in ProducedAt(n) :
              /\ IsToolRequest(req[n].messages[i])
              /\ req[n].messages[i].tool_calls[1].function.arguments = NotJson
              /\ req[n].messages[i + 1].role = "tool"
              /\ i + 1 < Len(req[n].messages)

(* The most recent k elements *)
MostRecent(msgs, k) ==
    IF Len(msgs) <= k THEN msgs ELSE [i \in 1..k |-> msgs[Len(msgs) - k + i]]

(* History at entry, then the prompt, then what the run produced *)
FullHistory(n) ==
    req[n].entry \o SubSeq(req[n].messages, req[n].base, Len(req[n].messages))

(* No later request was served under the thread_id of request n *)
LatestOnThread(n) ==
    \A m \in (n + 1)..MaxRequests :
        ~(Entered(m) /\ req[m].thread_id = req[n].thread_id)

NoSystemMessage(msgs) == \A i \in 1..Len(msgs) : msgs[i].role # "system"

StoredAfterReturn ==
    \A n \in 1..MaxRequests :
        (Returned(n) /\ LatestOnThread(n)) =>
            /\ conversation_threads[req[n].thread_id]
                   = MostRecent(FullHistory(n), max_messages)
            /\ NoSystemMessage(conversation_threads[req[n].thread_id])

(* C6: after a request that returned, the stored history of its thread is  *)
(* the most recent 20 of (history at entry, prompt, messages produced), in *)
(* that order and without system message; hence once every request that    *)
(* was started has returned a response, every stored thread holds at most  *)
(* 20 messages.  A thread holds 21 messages only while its latest request  *)
(* is waiting for the model or after that request failed, and never more.  *)
C6_StoredHistory ==
    /\ StoredAfterReturn
    /\ (\A n \in 1..MaxRequests : Entered(n) => Returned(n)) =>
          \A t \in DOMAIN conversation_threads :
              Len(conversation_threads[t]) <= max_messages
    /\ \A t \in DOMAIN conversation_threads :
          /\ Len(conversation_threads[t]) <= max_messages + 1
          /\ NoSystemMessage(conversation_threads[t])
          /\ Len(conversation_threads[t]) > max_messages =>
                \E n \in 1..MaxRequests :
                    /\ Entered(n) /\ req[n].thread_id = t /\ LatestOnThread(n)
                    /\ req[n].pc \in {"awaiting", "failed"}
                    /\ Len(req[n].entry) = max_messages

(* A second request on a thread returned and older messages were dropped *)
C6_Witness ==
    \E n \in 1..MaxRequests :
        /\ Returned(n) /\ LatestOnThread(n)
        /\ Len(req[n].entry) = max_messages
        /\ Len(FullHistory(n)) > max_messages + 2
        /\ conversation_threads[req[n].thread_id][1] # req[n].entry[1]

(* C7 as stated: a request that carries no thread_id, or one the store     *)
(* does not hold, is served under a newly minted id that the store does    *)
(* not hold, from an empty history, and the response returns that id.      *)
C7_AlwaysMinted ==
    \A n \in 1..MaxRequests :
        (Entered(n) /\ (req[n].given = "" \/ ~req[n].given_known)) =>
            /\ req[n].thread_id \in generate_thread_id
            /\ ~req[n].known
            /\ req[n].entry = <<>>
            /\ Returned(n) => req[n].response_thread_id = req[n].thread_id

(* C7: a request is served under the thread_id it carries when that is not *)
(* empty, whether or not the store holds it, and under a minted id when it *)
(* carries none; its history starts empty, behind the system message, when *)
(* the store does not hold the id used, and continues the stored history   *)
(* otherwise; the response returns the id used.                            *)
C7_ThreadIdentity ==
    \A n \in 1..MaxRequests :
        Entered(n) =>
            /\ req[n].given # "" => req[n].thread_id = req[n].given
            /\ req[n].given = "" => req[n].thread_id \in generate_thread_id
            /\ req[n].thread_id \in DOMAIN conversation_threads
            /\ ~req[n].known =>
                  /\ req[n].entry = <<>>
                  /\ req[n].base = 2
                  /\ req[n].messages[1].role = "system"
            /\ req[n].known /\ req[n].entry # <<>> =>
                  SubSeq(req[n].messages, 1, req[n].base - 1)
                      = MostRecent(req[n].entry, max_messages)
            /\ req[n].messages[req[n].base].role = "user"
            /\ Returned(n) => req[n].response_thread_id = req[n].thread_id

(* A request carried an id the store did not hold and was served under it *)
C7_Witness ==
    \E n \in 1..MaxRequests :
        /\ Returned(n) /\ req[n].given = "c1" /\ ~req[n].given_known
        /\ req[n].thread_id = "c1" /\ req[n].response_thread_id = "c1"

(* What request m left in the store *)
LeftInStore(m) ==
    IF Returned(m)
    THEN MostRecent(updated_history(req[m].messages), max_messages)
    ELSE updated_history(SubSeq(req[m].messages, 1, req[m].base))

(* The request before n that was served under the same thread_id *)
Previous(n) ==
    {m \in 1..(n - 1) :
        /\ Entered(m) /\ req[m].thread_id = req[n].thread_id
        /\ \A k \in (m + 1)..(n - 1) :
               ~(Entered(k) /\ req[k].thread_id = req[n].thread_id)}

(* C8 as stated: requests are not mutually excluded: while a request waits *)
(* for the model, another request on the same thread can be started.       *)
C8_NotMutuallyExcluded ==
    \A n \in 1..(MaxRequests - 1) :
        (req[n].pc = "awaiting" /\ nreq = n) =>
            ENABLED AgentChat(n + 1, req[n].thread_id, "thread_b")

(* C8: within one process the requests exclude each other: at most one is  *)
(* between its read of the history and its write, no other request can    *)
(* start meanwhile, the store holds what the running request wrote at      *)
(* entry, and a request finds on its thread exactly what the previous      *)
(* request on that thread left there, so no update is lost.                *)
C8_RequestsSerialized ==
    /\ Cardinality({n \in 1..MaxRequests : req[n].pc = "awaiting"}) <= 1
    /\ \A n \in 1..MaxRequests :
          /\ req[n].pc = "awaiting" =>
                /\ conversation_threads[req[n].thread_id]
                       = updated_history(SubSeq(req[n].messages, 1, req[n].base))
                /\ \A m \in 1..MaxRequests, given \in ThreadIdsGiven \cup {req[n].thread_id} :
                       ~ENABLED AgentChat(m, given, "thread_b")
          /\ Entered(n) =>
                \A m \in Previous(n) :
                    /\ req[m].pc # "awaiting"
                    /\ req[n].entry = LeftInStore(m)
          /\ (Entered(n) /\ req[n].pc # "awaiting" /\ LatestOnThread(n)) =>
                conversation_threads[req[n].thread_id] = LeftInStore(n)

(* Two requests on one thread returned, and the history holds the prompts  *)
(* of both                                                                 *)
C8_Witness ==
    \E m, n \in 1..MaxRequests :
        /\ m < n /\ Returned(m) /\ Returned(n)
        /\ req[m].thread_id = req[n].thread_id
        /\ \E i, j \in 1..Len(conversation_threads[req[n].thread_id]) :
              /\ i < j
              /\ conversation_threads[req[n].thread_id][i]
                     = [role |-> "user", content |-> Text("p" \o ToString(m))]
              /\ conversation_threads[req[n].thread_id][j]
                     = [role |-> "user", content |-> Text("p" \o ToString(n))]

ReportsReceipt(msg) ==
    msg.role = "tool" /\ ~msg.content.cut /\ "receipt_id" \in DOMAIN msg.content.json

ReportsDelivery(msg) ==
    /\ msg.role = "tool" /\ ~msg.content.cut
    /\ "delivery_status" \in DOMAIN msg.content.json

(* The request ended at the iteration cap *)
Capped(n) ==
    /\ Returned(n)
    /\ Last(req[n].messages).role = "tool"
    /\ req[n].iteration = max_iterations

(* C9: a receipt or a delivery that a tool call of a request reported as   *)
(* created is in the Receipts collection, or with the provider, after the  *)
(* request ended at the iteration cap or failed with HTTP 500, and also    *)
(* while it runs and however it returns.                                   *)
C9_SideEffectsStay ==
    \A n \in 1..MaxRequests :
        Entered(n) =>
            \A i \in ProducedAt(n) :
                /\ ReportsReceipt(req[n].messages[i]) =>
                      \E k \in 1..Len(receipts) :
                          receipts[k].receipt_id = req[n].messages[i].content.json.receipt_id
                /\ ReportsDelivery(req[n].messages[i]) =>
                      req[n].messages[i].content.json.external_delivery_id
                          \in Range(deliveries)

(* A request that created a receipt and a delivery ended at the cap, or    *)
(* failed on a later call of the model                                     *)
C9_Witness ==
    \E n \in 1..MaxRequests :
        /\ \/ Capped(n)
           \/ req[n].pc = "failed" /\ req[n].cause = "model_call"
        /\ \E i, j \in ProducedAt(n) :
              /\ ReportsReceipt(req[n].messages[i])
              /\ ReportsDelivery(req[n].messages[j])
              /\ j + 2 < Len(req[n].messages)
        /\ receipts # <<>> /\ deliveries # <<>>

(* The request returned on a response that asked for no tool *)
EndedOnText(n) ==
    /\ Returned(n)
    /\ Last(req[n].messages).role = "assistant"
    /\ ~IsToolRequest(Last(req[n].messages))

(* C10 as stated: a response without tool calls ends the loop, and the     *)
(* response to the caller is the text of that message.                     *)
C10_TextIsResponse ==
    \A n \in 1..MaxRequests :
        /\ req[n].pc = "awaiting" => AllToolRequests(n)
        /\ EndedOnText(n) => req[n].response = Last(req[n].messages).content.text

(* C10: a response without tool calls ends the loop: it is the last        *)
(* message of the run, no model call and no tool call follows it, and the  *)
(* response to the caller is its text when that is not empty; when it is   *)
(* empty the response is the last non-empty assistant text of the history, *)
(* else the last tool error, else the apology.                             *)
C10_TextEndsLoop ==
    \A n \in 1..MaxRequests :
        /\ req[n].pc = "awaiting" => AllToolRequests(n)
        /\ Returned(n) => (EndedOnText(n) \/ Capped(n))
        /\ EndedOnText(n) =>
              /\ req[n].calls = ModelResponses(n)
              /\ \A i \in ProducedAt(n) :
                    (i < Len(req[n].messages) /\ req[n].messages[i].role = "assistant")
                        => IsToolRequest(req[n].messages[i])
              /\ IF Last(req[n].messages).content.text # ""
                 THEN req[n].response = Last(req[n].messages).content.text
                 ELSE IsFallback(req[n].response, req[n].messages)

(* A response without text and without tool calls was answered with the    *)
(* text of an earlier turn                                                 *)
C10_Witness ==
    \E n \in 1..MaxRequests :
        /\ EndedOnText(n)
        /\ Last(req[n].messages).content.text = ""
        /\ req[n].response = "t1.1"

----------------------------------------------------------------------------
(* Properties of the cart, the cost estimate and the receipt.              *)

CatalogItemIds == {Items[i]._id : i \in 1..Len(Items)}

(* The item ids of the body that no item of the catalog carries *)
AbsentIds(body) ==
    {body.items[i].item_id : i \in 1..Len(body.items)} \ CatalogItemIds

(* The three answers to the body, so far as the handlers were called *)
Answers ==
    {a \in {disp.cart, disp.estimate, disp.receipt} : a # NotCalled}

(* The detail carries the id between the words of an error text *)
Mentions(detail, id) ==
    \E before, after \in {"", "Item ", " not found", "Items not found: ",
                          "One or more items not found or invalid: "} :
        detail = before \o id \o after

(* The body is well-formed, its restaurant exists and exactly one of its   *)
(* item ids is absent from the catalog                                     *)
OneItemAbsent ==
    /\ disp.pc = "rest"
    /\ validate_body(disp.body).raised = ""
    /\ get_restaurant_by_id(disp.body.restaurant_id, disp.env) # None
    /\ Cardinality(AbsentIds(disp.body)) = 1

(* C11: build_cart, compute_cost_estimate and create_receipt, given an     *)
(* existing restaurant and an item list in which one id is absent from the *)
(* catalog, fail with status 400 and a detail that names the missing item  *)
(* id, and answer no priced result nor persist a receipt.                  *)
C11_MissingItemNamed ==
    OneItemAbsent =>
        /\ receipts = <<>>
        /\ \A a \in Answers :
              /\ a.status_code = 400
              /\ "body" \notin DOMAIN a
              /\ \E id \in AbsentIds(disp.body) : Mentions(a.detail, id)

(* The price the catalog gives the item *)
PriceOf(item_id) ==
    (CHOOSE it \in Range(Items) : it._id = item_id).price

(* Sum of price x quantity over the lines of the body *)
SubtotalOf(body) ==
    SumSeq([i \in 1..Len(body.items) |->
               PriceOf(body.items[i].item_id) * body.items[i].quantity])

(* The fee the answer carries: None is no fee *)
FeeOf(answer) ==
    IF answer.delivery_fee = <<>> THEN 0 ELSE answer.delivery_fee[1]

----------------------------------------------------------------------------
(* Properties of the resolution of names.                                  *)

(* name holds query, letter case apart *)
ContainsFolded(query, name) ==
    \E k \in 0..(Len(name) - Len(query)) :
        \A i \in 1..Len(query) : lower(name[k + i]) = lower(query[i])

EqualsFolded(query, name) ==
    Len(query) = Len(name) /\ ContainsFolded(query, name)

(* Positions in store order of the restaurants whose name holds, and of    *)
(* those whose name is, the query                                          *)
Holding(query) ==
    {i \in 1..Len(Restaurants) : ContainsFolded(query, Restaurants[i].name)}

Equal(query) ==
    {i \in 1..Len(Restaurants) : EqualsFolded(query, Restaurants[i].name)}

First(S) == CHOOSE i \in S : \A j \in S : i <= j

(* The restaurant a query resolves to *)
Preferred(query) ==
    Restaurants[First(IF Equal(query) # {} THEN Equal(query) ELSE Holding(query))]

(* A str was asked for and the database answers *)
RestaurantAsked ==
    /\ disp.pc = "resolve"
    /\ disp.restaurant # NotResolved
    /\ disp.restaurant_name # NotStr
    /\ disp.env.db = "up"

(* C13: the resolution of a restaurant name succeeds exactly when some     *)
(* stored name holds the query, letter case apart; it answers the first    *)
(* restaurant in store order whose name is the query, letter case apart,   *)
(* when there is one, and else the first in store order whose name holds   *)
(* it; when none does it fails with ValueError "Restaurant '<query>' not   *)
(* found".                                                                 *)
C13_RestaurantResolution ==
    RestaurantAsked =>
        /\ disp.restaurant.raised = "" <=> Holding(disp.restaurant_name) # {}
        /\ disp.restaurant.raised = "" =>
              disp.restaurant.value.id = Preferred(disp.restaurant_name)._id
        /\ disp.restaurant.raised # "" =>
              /\ disp.restaurant.raised = "ValueError"
              /\ disp.restaurant.detail =
                     "Restaurant '" \o ToString(disp.restaurant_name) \o "' not found"

(* "SU" resolved to the second restaurant, "su", although the name of the  *)
(* first, "Sub", holds it                                                  *)
C13_Witness ==
    /\ RestaurantAsked
    /\ disp.restaurant_name = <<"S", "U">>
    /\ Holding(disp.restaurant_name) = {1, 2}
    /\ disp.restaurant = Ok([id |-> "r2"])

(* The item is the restaurant's: its id is in the restaurant's items list, *)
(* or the list is empty and the item carries the restaurant's store_id     *)
OwnedBy(restaurant, it) ==
    IF restaurant.items # <<>>
    THEN \E k \in 1..Len(restaurant.items) : restaurant.items[k] = it._id
    ELSE it.store_id = restaurant.store_id

(* Strs were asked for *)
ItemAsked ==
    /\ disp.pc = "resolve"
    /\ disp.item # NotResolved
    /\ disp.restaurant_name # NotStr
    /\ disp.item_name # NotStr

(* C14: resolve_item_name_to_id answers the id of an item that the         *)
(* restaurant the name resolves to owns and whose name holds the item name *)
(* asked for, or fails with ValueError: "Restaurant '<r>' not found" when  *)
(* no restaurant name holds the restaurant name, and "Item '<i>' not found *)
(* in restaurant '<r>'" when the restaurant owns no such item; it never    *)
(* answers an item of another restaurant, and when the database does not   *)
(* answer it answers no id.                                                *)
C14_ItemOfTheRestaurant ==
    ItemAsked =>
        IF disp.env.db = "down" THEN disp.item.raised # ""
        ELSE IF Holding(disp.restaurant_name) = {}
        THEN /\ disp.item.raised = "ValueError"
             /\ disp.item.detail =
                    "Restaurant '" \o ToString(disp.restaurant_name) \o "' not found"
        ELSE IF disp.item.raised = ""
        THEN \E it \in Range(Items) :
                /\ it._id = disp.item.value.id
                /\ OwnedBy(Preferred(disp.restaurant_name), it)
                /\ ContainsFolded(disp.item_name, it.name)
        ELSE /\ disp.item.raised = "ValueError"
             /\ disp.item.detail =
                    "Item '" \o ToString(disp.item_name) \o "' not found in restaurant '"
                    \o ToString(disp.restaurant_name) \o "'"
             /\ \A it \in Range(Items) :
                    ~(OwnedBy(Preferred(disp.restaurant_name), it)
                      /\ ContainsFolded(disp.item_name, it.name))

(* "a" at the restaurant "su", which has no items list, resolved to the    *)
(* item of its store and not to the "a" of the other restaurant, first in  *)
(* store order                                                             *)
C14_Witness ==
    /\ ItemAsked
    /\ disp.env.db = "up"
    /\ disp.restaurant_name = <<"s", "u">>
    /\ disp.item_name = <<"a">>
    /\ Items[1].name = <<"a">> /\ ~OwnedBy(Restaurants[2], Items[1])
    /\ disp.item = Ok([id |-> "i3"])

----------------------------------------------------------------------------
(* Properties of the tools' answers.                                       *)

(* list_restaurants answered a list *)
ListAnswered ==
    /\ disp.pc = "done"
    /\ disp.function_name = "list_restaurants"
    /\ "restaurants" \in DOMAIN disp.result

(* The skip and the limit the tool call asks the catalog for *)
SkipAsked == IF "skip" \in DOMAIN disp.arguments THEN disp.arguments.skip ELSE 0

LimitAsked ==
    IF "limit" \in DOMAIN disp.arguments /\ disp.arguments.limit < 100
    THEN disp.arguments.limit ELSE 100

(* How many restaurants the page holds: a limit of 0 is no limit and a     *)
(* negative limit is its absolute value                                    *)
PageLength ==
    LET left == IF SkipAsked >= Len(Restaurants) THEN 0
                ELSE Len(Restaurants) - SkipAsked
        most == IF LimitAsked < 0 THEN 0 - LimitAsked ELSE LimitAsked
    IN  IF most = 0 \/ most > left THEN left ELSE most

C16_UnknownFunction ==
    [][(disp.pc = "call" /\ disp.function_name \notin DeclaredTools) =>
          /\ disp'.pc = "done"
          /\ disp'.result = [error |-> "Unknown function: " \o disp.function_name]
          /\ UNCHANGED <<receipts, deliveries>>]_vars

(* order_pizza was called with the arguments of a delivery while the       *)
(* database was down, and was answered                                     *)
C16_Witness ==
    /\ disp.pc = "done"
    /\ disp.function_name = "order_pizza"
    /\ disp.arguments = DeliveryArguments
    /\ disp.env = [db |-> "down", dd |-> "ok"]
    /\ disp.result = [error |-> "Unknown function: order_pizza"]
    /\ deliveries = <<>>

----------------------------------------------------------------------------
(* Properties of the quantities.                                           *)

(* The quantity of the line is missing, is no integer, or is below 1 *)
BadQuantity(line) ==
    \/ "quantity" \notin DOMAIN line
    \/ line.quantity = NotInt
    \/ line.quantity < 1

AllAtLeastOne(lines) ==
    \A i \in 1..Len(lines) : ~BadQuantity(lines[i])

(* The lines of the request, over REST and through a tool *)
LinesAsked ==
    IF disp.pc = "rest" THEN disp.body.items ELSE disp.arguments.items

SomeBadQuantity ==
    /\ \A i \in 1..Len(LinesAsked) : IsDict(LinesAsked[i])
    /\ \E i \in 1..Len(LinesAsked) : BadQuantity(LinesAsked[i])

(* The answer prices nothing: over REST no 200, through a tool an error *)
Refused(answer) ==
    IF disp.pc = "rest"
    THEN answer.status_code >= 400 /\ "body" \notin DOMAIN answer
    ELSE "error" \in DOMAIN answer /\ DOMAIN answer \cap {"items", "subtotal", "receipt_id"} = {}

(* The answers given so far *)
OrderAnswers ==
    IF disp.pc = "rest" THEN Answers
    ELSE IF disp.pc = "done" THEN {disp.result} ELSE {}

(* C17: every line of a cart that is answered and of a receipt that is     *)
(* persisted has a quantity of at least 1, and so has every line of a      *)
(* request whose cart, estimate or receipt is answered, over REST and      *)
(* through a tool of the agent; a request with a line whose quantity is    *)
(* missing, 0 or negative is refused without a price and persists no       *)
(* receipt.                                                                *)
C17_QuantityAtLeastOne ==
    disp.pc \in {"rest", "done"} =>
        /\ \A k \in 1..Len(receipts) : AllAtLeastOne(receipts[k].items)
        /\ \A a \in OrderAnswers :
              /\ ~Refused(a) => AllAtLeastOne(LinesAsked)
              /\ (~Refused(a) /\ "items" \in DOMAIN a) => AllAtLeastOne(a.items)
              /\ (~Refused(a) /\ "body" \in DOMAIN a /\ "items" \in DOMAIN a.body)
                    => AllAtLeastOne(a.body.items)
        /\ SomeBadQuantity =>
              /\ receipts = <<>>
              /\ \A a \in OrderAnswers : Refused(a)

(* A receipt whose second line has quantity 0 was refused over REST, with  *)
(* the cart and the estimate; nothing was persisted                        *)
C17_Witness ==
    /\ disp.pc = "rest"
    /\ disp.env.db = "up"
    /\ disp.body = [restaurant_id |-> "r1",
                    items |-> <<[item_id |-> "i2", quantity |-> 1],
                                [item_id |-> "i1", quantity |-> 0]>>]
    /\ disp.cart # NotCalled /\ disp.estimate # NotCalled
    /\ disp.receipt = [status_code |-> 422, detail |-> "Unprocessable Entity"]
    /\ receipts = <<>>

----------------------------------------------------------------------------
(* Properties of the model input.                                          *)

(* No request was served under the thread_id of request n before it *)
FirstOnThread(n) == Previous(n) = {}

(* C18: the messages of a chat request start with the system prompt        *)
(* exactly when the stored history of its thread was empty at entry, which *)
(* is exactly when no earlier request was served under the thread; on a    *)
(* later turn no message of the request is a system message, and on the    *)
(* first turn none but the first.                                          *)
C18_SystemPromptOnFirstTurn ==
    \A n \in 1..MaxRequests :
        Entered(n) =>
            /\ (req[n].messages[1] = system_message) <=> (req[n].entry = <<>>)
            /\ (req[n].entry = <<>>) <=> FirstOnThread(n)
            /\ req[n].entry # <<>> => NoSystemMessage(req[n].messages)
            /\ req[n].entry = <<>> =>
                   NoSystemMessage(SubSeq(req[n].messages, 2, Len(req[n].messages)))

(* A second turn of thread c1 that called a tool and returned, sent        *)
(* without the system prompt that its first turn was sent with             *)
C18_Witness ==
    /\ Returned(1) /\ Returned(2)
    /\ req[1].thread_id = "c1" /\ req[2].thread_id = "c1"
    /\ req[1].messages[1] = system_message
    /\ req[2].entry # <<>>
    /\ req[2].messages[1].role = "user"
    /\ req[2].calls >= 2

----------------------------------------------------------------------------
(* Properties of the tool loop.                                            *)

(* The receipt_id a tool message answers, if it answers one *)
AnswersReceipt(msg) ==
    msg.role = "tool" /\ ~msg.content.cut /\ "receipt_id" \in DOMAIN msg.content.json

(* Where the receipt of that id stands in the collection *)
StoredAt(receipt_id) == {k \in 1..Len(receipts) : receipts[k].receipt_id = receipt_id}

(* The k calls of the assistant message at i are answered by the k         *)
(* messages after it, the j-th with the id of the j-th call *)
AnsweredInOrder(msgs, i) ==
    LET k == Len(msgs[i].tool_calls)
    IN  /\ i + k <= Len(msgs)
        /\ \A j \in 1..k :
              /\ msgs[i + j].role = "tool"
              /\ msgs[i + j].tool_call_id = msgs[i].tool_calls[j].id
        /\ i + k < Len(msgs) => msgs[i + k + 1].role = "assistant"

(* The receipts two calls of one response created are stored in the order  *)
(* of the calls *)
ExecutedInOrder(msgs, i) ==
    \A j1, j2 \in 1..Len(msgs[i].tool_calls) :
        (j1 < j2 /\ AnswersReceipt(msgs[i + j1]) /\ AnswersReceipt(msgs[i + j2])) =>
            \A k1 \in StoredAt(msgs[i + j1].content.json.receipt_id),
               k2 \in StoredAt(msgs[i + j2].content.json.receipt_id) : k1 < k2

(* C19: a response of the model with k >= 1 tool calls is followed in the  *)
(* messages by exactly k tool messages, the j-th with the id of the j-th   *)
(* call, and after them comes the next response of the model or nothing;   *)
(* a request that waits for the model has every call answered; and what    *)
(* the calls persisted is stored in the order of the calls.                *)
C19_ToolCallsInOrder ==
    \A n \in 1..MaxRequests :
        Entered(n) =>
            /\ \A i \in ProducedAt(n) :
                  IsToolRequest(req[n].messages[i]) =>
                      /\ Len(req[n].messages[i].tool_calls) >= 1
                      /\ AnsweredInOrder(req[n].messages, i)
                      /\ ExecutedInOrder(req[n].messages, i)
            /\ \A i \in ProducedAt(n) :
                  req[n].messages[i].role = "tool" =>
                      \E a \in ProducedAt(n) :
                          /\ IsToolRequest(req[n].messages[a])
                          /\ a < i /\ i <= a + Len(req[n].messages[a].tool_calls)

(* A response with three calls, the first and the third of which created   *)
(* a receipt, was answered by three tool messages before the model was     *)
(* called again                                                            *)
C19_Witness ==
    \E n \in 1..MaxRequests : \E i \in ProducedAt(n) :
        /\ Entered(n)
        /\ IsToolRequest(req[n].messages[i])
        /\ Len(req[n].messages[i].tool_calls) = 3
        /\ i + 4 <= Len(req[n].messages)
        /\ AnswersReceipt(req[n].messages[i + 1])
        /\ AnswersReceipt(req[n].messages[i + 3])
        /\ req[n].messages[i + 1].content.json.receipt_id
               # req[n].messages[i + 3].content.json.receipt_id
        /\ Len(receipts) >= 2
        /\ req[n].messages[i + 4].role = "assistant"

----------------------------------------------------------------------------
(* Properties of the tool messages.                                        *)

Prefixes(s) == {SubSeq(s, 1, k) : k \in 0..Len(s)}

(* The states of the services the turns of the model meet *)
TurnEnvs == {turn.env : turn \in ModelTurns}

(* What an error of the dispatcher is placed as *)
ErrorShape(r) ==
    [success |-> FALSE,
     error |-> r.error,
     error_type |-> IF "error_type" \in DOMAIN r THEN r.error_type ELSE "unknown",
     suggestion |-> suggestion]

(* What the message holds for the result r of the tool: the error shape or *)
(* r itself, as JSON text cut at the length the tool is allowed            *)
PlacedCut(r, content, function_name) ==
    LET expected == IF "error" \in DOMAIN r THEN ErrorShape(r) ELSE r
    IN  /\ content.json = expected
        /\ content.cut <=> json_len(expected) > max_length_for(function_name)
        /\ content.len = IF content.cut
                         THEN max_length_for(function_name) + marker_length
                         ELSE json_len(expected)

(* The same where no text is ever cut *)
PlacedWhole(r, content, function_name) ==
    LET expected == IF "error" \in DOMAIN r THEN ErrorShape(r) ELSE r
    IN  content = [json |-> expected, len |-> json_len(expected), cut |-> FALSE]

(* The result of the call in some state of the services between the one    *)
(* before the response and the one after it                                *)
ResultsOf(tool_call, col2, dl2) ==
    {execute_function_call(tool_call.function.name,
                           loads_arguments(tool_call.function.arguments).value,
                           col, dl, clock, env).result :
        env \in TurnEnvs, col \in Prefixes(col2), dl \in Prefixes(dl2)}

(* The positions of the tool messages a step appended to request n *)
Appended(before, after) == (Len(before) + 2)..Len(after)

(* C20: the tool message placed for a result of the dispatcher with an     *)
(* error field holds exactly {success: false, error, error_type,           *)
(* suggestion}, with the error of the dispatcher and its error_type or     *)
(* "unknown"; the message placed for a result without an error field holds *)
(* the result as it is; and either text is kept whole up to 5000           *)
(* characters, 15000 for list_restaurants, and cut to that length and      *)
(* marked beyond.                                                          *)
C20_ErrorsReshaped ==
    [][\A n \in 1..MaxRequests :
          req[n].pc = "awaiting" =>
              \A i \in Appended(req[n].messages, req'[n].messages) :
                  LET call == i - Len(req[n].messages) - 1
                      tool_call == req'[n].messages[i - call].tool_calls[call]
                  IN  \E r \in ResultsOf(tool_call, receipts', deliveries') :
                          PlacedCut(r, req'[n].messages[i].content,
                                    tool_call.function.name)]_vars

(* C20 as stated: a result without an error field is stored unmodified,    *)
(* whatever its length.                                                    *)
C20_StoredUnmodified ==
    [][\A n \in 1..MaxRequests :
          req[n].pc = "awaiting" =>
              \A i \in Appended(req[n].messages, req'[n].messages) :
                  LET call == i - Len(req[n].messages) - 1
                      tool_call == req'[n].messages[i - call].tool_calls[call]
                  IN  \E r \in ResultsOf(tool_call, receipts', deliveries') :
                          PlacedWhole(r, req'[n].messages[i].content,
                                      tool_call.function.name)]_vars

(* One response asked for four menus: the long one was placed cut, the     *)
(* short one whole, the one of no restaurant as an error of type           *)
(* http_exception and the one without a name as an error of type unknown   *)
C20_Witness ==
    \E n \in 1..MaxRequests : \E i \in ProducedAt(n) :
        /\ Entered(n)
        /\ IsToolRequest(req[n].messages[i])
        /\ Len(req[n].messages[i].tool_calls) = 4
        /\ i + 4 <= Len(req[n].messages)
        /\ req[n].messages[i + 1].content.cut
        /\ Len(req[n].messages[i + 1].content.json.items) = 20
        /\ ~req[n].messages[i + 2].content.cut
        /\ Len(req[n].messages[i + 2].content.json.items) = 2
        /\ req[n].messages[i + 3].content.json.error_type = "http_exception"
        /\ DOMAIN req[n].messages[i + 3].content.json
               = {"success", "error", "error_type", "suggestion"}
        /\ req[n].messages[i + 4].content.json
               = [success |-> FALSE, error |-> "restaurant_name is required",
                  error_type |-> "unknown", suggestion |-> suggestion]

----------------------------------------------------------------------------
(* Properties of the trimming.                                             *)

Trimmed == disp.pc = "trim" /\ disp.out.applied

SystemOf(msgs) == SelectSeq(msgs, LAMBDA msg : msg.role = "system")

NonSystemOf(msgs) == SelectSeq(msgs, LAMBDA msg : msg.role # "system")

(* Where a message of the output stood in the input *)
PlaceIn(msgs, msg) == CHOOSE i \in 1..Len(msgs) : msgs[i] = msg

(* The output holds messages of the input, in the order of the input *)
KeepsOrder(input, output) ==
    /\ \A k \in 1..Len(output) : \E i \in 1..Len(input) : input[i] = output[k]
    /\ \A k1, k2 \in 1..Len(output) :
          k1 < k2 => PlaceIn(input, output[k1]) < PlaceIn(input, output[k2])

(* The output holds every system message and the most recent min(n, 20)    *)
(* of the n other messages, each kind in the order of the input            *)
KeepsRecent(input, output) ==
    /\ SystemOf(output) = SystemOf(input)
    /\ NonSystemOf(output) = MostRecent(NonSystemOf(input), max_messages)

(* C21 as stated: of any list the trim returns every system message and    *)
(* the most recent min(n, 20) of the n others, all in the relative order   *)
(* they had in the list.                                                   *)
C21_OrderKept ==
    Trimmed =>
        /\ KeepsRecent(disp.messages, disp.out.value)
        /\ KeepsOrder(disp.messages, disp.out.value)

(* C21: of any list the trim returns every system message and the most     *)
(* recent min(n, 20) of the n others, each kind in the order it had; a     *)
(* list of at most 20 messages is returned as it is, and of a longer one   *)
(* the system messages come first, before every other message, so that     *)
(* the order of the list is kept only when no system message stood after   *)
(* another message that is kept.                                           *)
C21_TrimKeepsRecent ==
    Trimmed =>
        /\ KeepsRecent(disp.messages, disp.out.value)
        /\ Len(disp.messages) <= max_messages => disp.out.value = disp.messages
        /\ Len(disp.messages) > max_messages =>
               disp.out.value = SystemOf(disp.messages)
                                  \o MostRecent(NonSystemOf(disp.messages), max_messages)
        /\ SystemOf(disp.messages) = <<>> =>
               KeepsOrder(disp.messages, disp.out.value)

(* A list of 23 with system messages at 5 and 23 was trimmed to the two    *)
(* of them followed by the 20 most recent others                           *)
C21_Witness ==
    /\ Trimmed
    /\ Len(disp.messages) = 23
    /\ disp.messages[5].role = "system" /\ disp.messages[23].role = "system"
    /\ Len(disp.out.value) = 22
    /\ disp.out.value[1] = disp.messages[5]
    /\ disp.out.value[2] = disp.messages[23]
    /\ disp.out.value[3] = disp.messages[2]
    /\ disp.out.value[22] = disp.messages[22]

----------------------------------------------------------------------------
(* Properties of the response at the iteration cap.                        *)

(* C22: a request that ended at the iteration cap answers the text of the  *)
(* most recent assistant message of its message list that has one; when    *)
(* no assistant message has text, "I encountered an error: " and the error *)
(* of the last tool message that holds one; and the apology when there is  *)
(* neither.                                                                *)
C22_FallbackPriority ==
    \A n \in 1..MaxRequests :
        Capped(n) =>
            /\ req[n].status = 200
            /\ IsFallback(req[n].response, req[n].messages)
            /\ req[n].response = apology =>
                   /\ LastNonEmptyText(req[n].messages) = ""
                   /\ ToolErrorsAt(req[n].messages) = {}
            /\ LastNonEmptyText(req[n].messages) # "" =>
                   \E i \in 1..Len(req[n].messages) :
                       /\ req[n].messages[i].role = "assistant"
                       /\ req[n].messages[i].content.text = req[n].response
                       /\ \A j \in (i + 1)..Len(req[n].messages) :
                              req[n].messages[j].role = "assistant"
                                  => req[n].messages[j].content.text = ""

(* A request ended at the cap without any assistant text and answered the  *)
(* error of its last failed tool call, which was not its last tool call    *)
C22_Witness ==
    \E n \in 1..MaxRequests :
        /\ Capped(n)
        /\ LastNonEmptyText(req[n].messages) = ""
        /\ ToolErrorsAt(req[n].messages) # {}
        /\ Max(ToolErrorsAt(req[n].messages)) < Len(req[n].messages) - 2
        /\ req[n].response = "I encountered an error: "
               \o req[n].messages[Max(ToolErrorsAt(req[n].messages))].content.json.error

----------------------------------------------------------------------------
(* Properties of the length of the tool messages.                          *)

Placed == disp.pc = "place" /\ disp.out.applied

(* The ceiling of the tool *)
Ceiling(function_name) ==
    IF function_name = "list_restaurants" THEN 15000 ELSE 5000

(* C23: the content of a tool message is at most 15000 characters for      *)
(* list_restaurants and 5000 for any other tool, and the marker; a text    *)
(* within the ceiling is stored as it is, and a longer one is cut to the   *)
(* ceiling and the marker, of 38 characters, appended.                     *)
C23_ContentCeiling ==
    Placed =>
        LET content == disp.out.value.content
            ceiling == Ceiling(disp.function_name)
        IN  /\ disp.out.value.role = "tool"
            /\ disp.out.value.tool_call_id = "call1"
            /\ content.len <= ceiling + 38
            /\ disp.result_json.len <= ceiling => content = disp.result_json
            /\ disp.result_json.len > ceiling =>
                   /\ content.cut
                   /\ content.len = ceiling + 38

(* A list of restaurants of 15001 characters was cut to 15000 and the      *)
(* marker                                                                  *)
C23_Witness ==
    /\ Placed
    /\ disp.function_name = "list_restaurants"
    /\ disp.result_json.len = 15001
    /\ disp.out.value.content.cut
    /\ disp.out.value.content.len = 15038

----------------------------------------------------------------------------
(* Properties of the page size.                                            *)

(* C24: whatever limit the call of list_restaurants carries, the limit the *)
(* catalog is listed with, which its answer reports, lies in 1..100, and   *)
(* is 100 when the call carries none.                                      *)
C24_PageSizeInRange ==
    ListAnswered =>
        /\ disp.result.limit \in 1..100
        /\ "limit" \notin DOMAIN disp.arguments => disp.result.limit = 100

----------------------------------------------------------------------------
(* Properties of the message lists sent to the model.                      *)

(* The tool message at i answers a call of an assistant message before it *)
Paired(msgs, i) ==
    \E j \in 1..(i - 1) :
        /\ IsToolRequest(msgs[j])
        /\ \E k \in 1..Len(msgs[j].tool_calls) :
               msgs[j].tool_calls[k].id = msgs[i].tool_call_id

(* C25: in the message list of a request that waits for the model, every   *)
(* tool message comes after an assistant message one of whose tool calls   *)
(* carries its tool_call_id, on every turn of a thread.                    *)
C25_ToolResultsPaired ==
    \A n \in 1..MaxRequests :
        req[n].pc = "awaiting" =>
            \A i \in 1..Len(req[n].messages) :
                req[n].messages[i].role = "tool" => Paired(req[n].messages, i)

----------------------------------------------------------------------------
(* Properties of the store after a failure.                                *)

FailedOnModel(n) == req[n].pc = "failed" /\ req[n].cause = "model_call"

(* The prompt of request n as the handler appended it *)
PromptOf(n) == req[n].messages[req[n].base]

(* C26: after a request failed with HTTP 500 on a call of the model, the   *)
(* store holds under its thread_id the history at entry, trimmed, and the  *)
(* prompt of the request after it, and none of the assistant and tool      *)
(* messages the request produced; the history is not the one at entry.     *)
C26_FailureKeepsPrompt ==
    \A n \in 1..MaxRequests :
        (FailedOnModel(n) /\ LatestOnThread(n)) =>
            /\ req[n].status = 500
            /\ req[n].thread_id \in DOMAIN conversation_threads
            /\ conversation_threads[req[n].thread_id]
                   = Append(MostRecent(req[n].entry, max_messages), PromptOf(n))
            /\ conversation_threads[req[n].thread_id] # req[n].entry
            /\ \A i \in ProducedAt(n) : \A k \in 1..Len(conversation_threads[req[n].thread_id]) :
                   conversation_threads[req[n].thread_id][k] # req[n].messages[i]

(* The second request of a thread failed on its third call of the model:   *)
(* the store holds its prompt behind the first turn, and not the two       *)
(* assistant messages and the two tool messages it produced                *)
C26_Witness ==
    /\ FailedOnModel(2)
    /\ Returned(1)
    /\ req[1].thread_id = req[2].thread_id
    /\ req[2].entry # <<>>
    /\ req[2].calls = 2
    /\ Len(req[2].messages) = req[2].base + 4
    /\ Last(conversation_threads[req[2].thread_id]) = PromptOf(2)
    /\ Len(conversation_threads[req[2].thread_id]) = Len(req[2].entry) + 1

----------------------------------------------------------------------------
(* Properties of the receipts after a failure.                             *)

(* The receipts of the day in the collection *)
OfDay(col, day) == {i \in 1..Len(col) : col[i].created_at = day}

(* The body fails for one of: restaurant unknown or invalid, item missing  *)
(* or invalid, quantity invalid                                            *)
BadBody(body) ==
    \/ body.restaurant_id \in {"r9", "zz"}
    \/ \E i \in 1..Len(body.items) :
           \/ body.items[i].item_id \in {"i9", "zz"}
           \/ BadQuantity(body.items[i])

(* C27: a create_receipt request with an unknown restaurant, a missing or  *)
(* invalid item id or an invalid quantity is answered with an error and    *)
(* leaves the Receipts collection as it was; a request that is answered    *)
(* 200 adds one receipt, whose number is one more than the count of the    *)
(* receipts persisted that day, however many requests failed before it.    *)
C27_FailureLeavesReceipts ==
    [][rq'.started = rq.started + 1 =>
          /\ BadBody(disp'.body) =>
                /\ disp'.response.status_code \in {400, 404, 422}
                /\ rq'.failed = rq.failed + 1
          /\ disp'.response.status_code >= 400 => receipts' = receipts
          /\ disp'.response.status_code < 400 =>
                /\ Len(receipts') = Len(receipts) + 1
                /\ SubSeq(receipts', 1, Len(receipts)) = receipts
                /\ Last(receipts').receipt_id = disp'.response.body.receipt_id
                /\ DecimalValue(SequencePart(Last(receipts').receipt_id))
                       = Cardinality(OfDay(receipts, clock)) + 1]_vars

(* After two requests of a day had failed, the second receipt of the day *)
(* was persisted with number 2                                             *)
C27_Witness ==
    /\ disp.pc = "receipt"
    /\ rq.started = 4 /\ rq.failed = 2
    /\ disp.response.status_code < 400
    /\ Len(receipts) = 2
    /\ receipts[1].created_at = receipts[2].created_at
    /\ SequencePart(receipts[2].receipt_id) = <<"0", "0", "2">>

----------------------------------------------------------------------------
(* Properties of the item lists that repeat an id.                         *)

(* Two lines of the body name the same item id *)
RepeatsAnId(body) ==
    \E i, j \in 1..Len(body.items) :
        /\ i # j
        /\ "item_id" \in DOMAIN body.items[i] /\ "item_id" \in DOMAIN body.items[j]
        /\ body.items[i].item_id = body.items[j].item_id

(* The quantities of the body are valid and its restaurant is read *)
ReachesTheItems(body, env) ==
    /\ AllAtLeastOne(body.items)
    /\ env.db # "down"
    /\ \E k \in 1..Len(Restaurants) : Restaurants[k]._id = body.restaurant_id

(* C28 as stated: every request whose lines repeat an item id is answered  *)
(* 400 by the cart, the estimate and the receipt.                          *)
C28_RepeatedIdIs400 ==
    (disp.pc = "rest" /\ RepeatsAnId(disp.body)) =>
        \A a \in Answers : a.status_code = 400

(* C28: no request whose lines repeat an item id is priced or persisted,   *)
(* even when the item is in the catalog: the cart, the estimate and the    *)
(* receipt answer 400, "One or more items not found or invalid", when the  *)
(* quantities are valid and the restaurant is found, and otherwise 422 for *)
(* the quantities or 404 for the restaurant.                               *)
C28_RepeatedIdRejected ==
    (disp.pc = "rest" /\ RepeatsAnId(disp.body)) =>
        /\ receipts = <<>>
        /\ \A a \in Answers :
              /\ a.status_code \in {400, 404, 422}
              /\ "body" \notin DOMAIN a
              /\ ReachesTheItems(disp.body, disp.env) =>
                    /\ a.status_code = 400
                    /\ a.detail = "One or more items not found or invalid"
              /\ ~AllAtLeastOne(disp.body.items) => a.status_code = 422
              /\ (AllAtLeastOne(disp.body.items) /\ ~ReachesTheItems(disp.body, disp.env))
                    => a.status_code = 404

(* Two lines of the item i1 of the restaurant r1, which sells it, were     *)
(* answered 400 by the cart, the estimate and the receipt                  *)
C28_Witness ==
    /\ disp.pc = "rest"
    /\ disp.env.db = "up"
    /\ disp.body = [restaurant_id |-> "r1",
                    items |-> <<[item_id |-> "i1", quantity |-> 1],
                                [item_id |-> "i1", quantity |-> 2]>>]
    /\ disp.cart.status_code = 400
    /\ disp.estimate.status_code = 400
    /\ disp.receipt.status_code = 400

----------------------------------------------------------------------------
(* Properties of the last response at the iteration cap.                   *)

(* Where the last response of the model stands in the messages of n *)
LastResponseAt(n) ==
    Max({i \in ProducedAt(n) : req[n].messages[i].role = "assistant"})

(* The tool messages behind the last response of the model *)
LastResults(n) ==
    SubSeq(req[n].messages, LastResponseAt(n) + 1, Len(req[n].messages))

(* C29: a request that ended at the iteration cap received ten responses   *)
(* of the model; the tool calls of the tenth were executed, each answered  *)
(* by its tool message, and what they created is persisted; these tool     *)
(* messages are the last of the request, so that no call of the model      *)
(* carried them, and they are the last messages of the stored history of   *)
(* the thread.                                                             *)
C29_LastResultsStored ==
    \A n \in 1..MaxRequests :
        Capped(n) =>
            LET a == LastResponseAt(n)
                k == Len(req[n].messages[a].tool_calls)
                results == LastResults(n)
                stored == conversation_threads[req[n].thread_id]
            IN  /\ req[n].calls = 10 /\ ModelResponses(n) = 10
                /\ IsToolRequest(req[n].messages[a])
                /\ k >= 1 /\ Len(results) = k
                /\ \A j \in 1..k :
                      /\ results[j].role = "tool"
                      /\ results[j].tool_call_id = req[n].messages[a].tool_calls[j].id
                      /\ AnswersReceipt(results[j]) =>
                             StoredAt(results[j].content.json.receipt_id) # {}
                /\ LatestOnThread(n) =>
                      /\ Len(stored) >= k
                      /\ SubSeq(stored, Len(stored) - k + 1, Len(stored)) = results

(* The tenth response asked for two receipts and a list: the request ended *)
(* at the cap, the receipts are persisted and the three results end the    *)
(* stored history                                                          *)
C29_Witness ==
    \E n \in 1..MaxRequests :
        /\ Capped(n)
        /\ Len(LastResults(n)) = 3
        /\ AnswersReceipt(LastResults(n)[1])
        /\ AnswersReceipt(LastResults(n)[3])
        /\ Len(receipts) = 2
        /\ Last(conversation_threads[req[n].thread_id]) = LastResults(n)[3]

----------------------------------------------------------------------------
(* Properties of the threads a request leaves alone.                       *)

(* The requests that took the step *)
Acting == {n \in 1..MaxRequests : req'[n] # req[n]}

(* C30: a step of a chat request, whether it enters, goes on, returns or    *)
(* fails, removes no thread from the store, and changes or creates the     *)
(* entry of no thread but the one the request is served under.             *)
C30_OtherThreadsUntouched ==
    [][/\ DOMAIN conversation_threads \subseteq DOMAIN conversation_threads'
       /\ \A t \in DOMAIN conversation_threads' :
             (t \notin DOMAIN conversation_threads
                  \/ conversation_threads'[t] # conversation_threads[t])
                 => \E n \in Acting : req'[n].thread_id = t
       /\ Cardinality(Acting) <= 1]_vars

(* The second request returned on a thread of its own after a tool call,   *)
(* and the thread of the first holds what the first left in it             *)
C30_Witness ==
    /\ Returned(1) /\ Returned(2)
    /\ req[1].thread_id # req[2].thread_id
    /\ req[2].calls >= 2
    /\ DOMAIN conversation_threads = {req[1].thread_id, req[2].thread_id}
    /\ conversation_threads[req[1].thread_id]
           = SubSeq(req[1].messages, 2, Len(req[1].messages))
    /\ Len(conversation_threads[req[2].thread_id]) >= 4

====
